---- MODULE Spec2Model ----
(***************************************************************************)
(* A model of the MCP server of src/mcp/core.py: the tool registry, the    *)
(* registration decorator and the JSON-RPC 2.0 request dispatcher MCP.run. *)
(*                                                                         *)
(* Python values are records with the same five fields whatever their      *)
(* type, so that any two of them can be compared:                          *)
(*   kind  "none" "int" "bool" "str" "dict" "list" "set"                   *)
(*   n     the number of an int, 1/0 for a bool                            *)
(*   s     the text of a str                                               *)
(*   m     the entries of a dict (a function on a set of strings)          *)
(*   l     the items of a list or of a set                                 *)
(* Requests carry JSON values only (what json.loads can produce); a tool   *)
(* may return any Python value, a set standing for the values json.dumps   *)
(* rejects.                                                                *)
(***************************************************************************)
EXTENDS Integers, Sequences, FiniteSets, TLC

VARIABLES
    tools,          \* self.tools: the registry, in insertion order
    initialized,    \* self.initialized
    server_name,    \* self.server_name
    server_version, \* self.server_version
    request_json,   \* the argument of the last call of run
    response,       \* the envelope the last call of run returned
    raised,         \* the exception type the last run let through, or ""
    calls,          \* the tool invocations made by the last call of run
    entry,          \* self.initialized when the last call of run began
    behaviour,      \* what the body of compute does when the last call runs it
    registered,     \* the names registered, in the order of their first
                    \* registration, each with the callables given first and last
    pc,             \* "idle", or "returned" when run has just returned
    probe,          \* the last call the host program made of one operation of
                    \* the server other than run, with what it gave back
    enable_logging, \* self.enable_logging
    loggers,        \* the loggers of the logging module, by name: what
                    \* logging.getLogger(name) gives in this process
    peer,           \* a second MCP instance of the same process
    threads         \* the threads of the host program that are inside run

vars == <<tools, initialized, server_name, server_version,
          request_json, response, raised, calls, entry, behaviour, registered, pc,
          probe, enable_logging, loggers, peer, threads>>

\* the state outside the server and its last call of run
hostVars == <<enable_logging, loggers, peer, threads>>

(***************************************************************************)
(* Bounds of the model.                                                    *)
(***************************************************************************)
MaxTools == 2   \* registrations made on one server
MaxArg == 1     \* argument values are 1..MaxArg
MaxId == 1      \* numeric request ids are 0..MaxId
MaxWords == 2   \* a text annotation is made of at most MaxWords words
MaxLines == 2   \* a docstring has at most MaxLines lines
MaxPos == 3     \* a call gives at most MaxPos positional arguments
MaxThreads == 2 \* threads calling run at the same time
MaxPeerOps == 3 \* operations called on the second instance

(***************************************************************************)
(* Python values.                                                          *)
(***************************************************************************)
EmptyMap == [k \in {} |-> 0]

Val(k, n, s, m, l) == [kind |-> k, n |-> n, s |-> s, m |-> m, l |-> l]

NoneV == Val("none", 0, "", EmptyMap, <<>>)

IntV(n) == Val("int", n, "", EmptyMap, <<>>)

BoolV(b) == Val("bool", IF b THEN 1 ELSE 0, "", EmptyMap, <<>>)

StrV(s) == Val("str", 0, s, EmptyMap, <<>>)

DictV(m) == Val("dict", 0, "", m, <<>>)

ListV(l) == Val("list", 0, "", EmptyMap, l)

SetV(l) == Val("set", 0, "", EmptyMap, l)

\* Truthy taking every value but None as true
TruthyNotNone(v) == v.kind # "none"

\* bool(v): the truth value Python gives v in "if v" and "not v"
Truthy(v) ==
    CASE v.kind = "none" -> FALSE
      [] v.kind = "int" -> v.n # 0
      [] v.kind = "bool" -> v.n # 0
      [] v.kind = "str" -> v.s # ""
      [] v.kind = "dict" -> DOMAIN v.m # {}
      [] OTHER -> Len(v.l) > 0

\* type(v).__name__
TypeName(v) ==
    CASE v.kind = "none" -> "NoneType"
      [] OTHER -> v.kind

\* The order in which the keys of an arguments mapping are written in the
\* modelled requests (a Python dict keeps insertion order).
KeyOrder == <<"jsonrpc", "method", "params", "id", "name", "arguments",
              "a", "b", "c", "d", "x", "y", "z">>

RECURSIVE KeysFrom(_, _)
KeysFrom(m, i) ==
    IF i > Len(KeyOrder) THEN <<>>
    ELSE (IF KeyOrder[i] \in DOMAIN m THEN <<KeyOrder[i]>> ELSE <<>>)
         \o KeysFrom(m, i + 1)

\* list(d.keys()) for a mapping whose keys are among KeyOrder
Keys(m) == KeysFrom(m, 1)

RECURSIVE Join(_, _)
\* sep.join(seq)
Join(sep, seq) ==
    IF Len(seq) = 0 THEN ""
    ELSE IF Len(seq) = 1 THEN seq[1]
    ELSE seq[1] \o sep \o Join(sep, Tail(seq))

RECURSIVE PyRepr(_)
\* repr(v)
PyRepr(v) ==
    CASE v.kind = "none" -> "None"
      [] v.kind = "int" -> ToString(v.n)
      [] v.kind = "bool" -> (IF v.n # 0 THEN "True" ELSE "False")
      [] v.kind = "str" -> "'" \o v.s \o "'"
      [] v.kind = "dict" ->
            "{" \o Join(", ", [i \in 1..Len(Keys(v.m)) |->
                    "'" \o Keys(v.m)[i] \o "': " \o PyRepr(v.m[Keys(v.m)[i]])])
                \o "}"
      [] v.kind = "list" ->
            "[" \o Join(", ", [i \in 1..Len(v.l) |-> PyRepr(v.l[i])]) \o "]"
      [] OTHER ->
            IF Len(v.l) = 0 THEN "set()"
            ELSE "{" \o Join(", ", [i \in 1..Len(v.l) |-> PyRepr(v.l[i])]) \o "}"

\* str(v): the display text of a value
PyStr(v) == IF v.kind = "str" THEN v.s ELSE PyRepr(v)

RECURSIVE JsonSerializable(_)
\* json.dumps(v) returns (TRUE) or raises TypeError (FALSE)
JsonSerializable(v) ==
    CASE v.kind = "set" -> FALSE
      [] v.kind = "dict" -> \A k \in DOMAIN v.m : JsonSerializable(v.m[k])
      [] v.kind = "list" -> \A i \in 1..Len(v.l) : JsonSerializable(v.l[i])
      [] OTHER -> TRUE

\* the message of the TypeError json.dumps raises
JsonDumpsError == "Object of type set is not JSON serializable"

\* d.get(key, default) on a dict
DictGet(d, key, default) ==
    IF key \in DOMAIN d.m THEN d.m[key] ELSE default

(***************************************************************************)
(* The callables that get registered.  A callable is known by an           *)
(* identifier; FuncName is its declared name (func.__name__), Signature    *)
(* its parameters in declared order, FuncBody what its body does with the  *)
(* bound arguments.  add and label compute their result from the           *)
(* arguments; compute stands for any callable without parameters: what its *)
(* body does in a call is an input of that call.  add2 is a second         *)
(* callable declared under the name add, with one optional parameter.      *)
(* opt and bad are callables the host program declares and calls itself:   *)
(*   def opt(a, b: Optional[int] = None, *, c: bool, d: int = 0)           *)
(*   def bad(x: [int])                                                     *)
(* opt has a docstring and returns the list of its arguments, bad returns  *)
(* its argument.                                                           *)
(***************************************************************************)
Funcs == {"add", "label", "compute"}

\* every callable the host program declares
Declared == {"add", "label", "compute", "add2", "opt", "bad"}

\* the callables declared under a name another callable has
Redefinitions == {"add2"}

FuncName(f) == IF f = "add2" THEN "add" ELSE f

\* An annotation is one of: inspect.Parameter.empty (no annotation), None,
\* a class, a typing generic or alias (it has __origin__: the class of the
\* outer container, or typing.Union), a union X | Y (it has no __origin__),
\* a text (a forward reference) or any other object, of which the type
\* name is kept.  A text is a sequence of characters.
Annotation(form, name, args, text) ==
    [form |-> form, name |-> name, args |-> args, text |-> text]

Empty == Annotation("empty", "", <<>>, <<>>)

NoneAnnotation == Annotation("none", "", <<>>, <<>>)

Class(name) == Annotation("class", name, <<>>, <<>>)

Generic(origin, args) == Annotation("generic", origin, args, <<>>)

UnionType(args) == Annotation("union", "", args, <<>>)

Text(text) == Annotation("text", "", <<>>, text)

Object(type) == Annotation("object", type, <<>>, <<>>)

Param(name, has_default, default, annotation) ==
    [name |-> name, has_default |-> has_default, default |-> default,
     annotation |-> annotation]

\* inspect.signature(func).parameters
Signature(f) ==
    CASE f = "add" -> <<Param("x", FALSE, NoneV, Class("int")),
                        Param("y", FALSE, NoneV, Class("int"))>>
      [] f = "label" -> <<Param("x", FALSE, NoneV, Class("int")),
                          Param("y", TRUE, IntV(0), Class("int"))>>
      [] f = "add2" -> <<Param("y", TRUE, IntV(1), Empty)>>
      [] f = "opt" -> <<Param("a", FALSE, NoneV, Empty),
                        Param("b", TRUE, NoneV,
                              Generic("Union", <<"int", "NoneType">>)),
                        Param("c", FALSE, NoneV, Class("bool")),
                        Param("d", TRUE, IntV(0), Class("int"))>>
      [] f = "bad" -> <<Param("x", FALSE, NoneV, Object("list"))>>
      [] OTHER -> <<>>

\* the parameters declared after the bare *: they are given by keyword only
KeywordOnly(f) == IF f = "opt" THEN {"c", "d"} ELSE {}

\* func.__doc__, stripped, line by line; no line for a callable without
\* docstring
Doc(f) ==
    IF f = "opt"
    THEN <<<<"C", "o", "m", "b", "i", "n", "e", " ", "t", "h", "e", " ", "a", "r", "g", "u", "m", "e", "n", "t", "s", ".">>,
           <<>>,
           <<"a", ":", " ", "f", "i", "r", "s", "t">>,
           <<"p", "a", "r", "a", "m", " ", "b", ":", " ", "s", "e", "c", "o", "n", "d">>>>
    ELSE <<>>

ParamNames(f) == {Signature(f)[i].name : i \in 1..Len(Signature(f))}

\* The outcome of a call: exc is "" when the call returned value, otherwise
\* the type of the exception raised and msg is str(e); ran tells whether the
\* body of the callable was entered.
Returned(v) == [exc |-> "", msg |-> "", value |-> v, ran |-> TRUE]

Raised(exc, msg) == [exc |-> exc, msg |-> msg, value |-> NoneV, ran |-> TRUE]

\* an exception raised by the call itself, before the body is entered
CallError(exc, msg) == [exc |-> exc, msg |-> msg, value |-> NoneV, ran |-> FALSE]

\* what the body of a callable can do: return None, a mapping or a value
\* json.dumps rejects, or raise an exception (ValueError; JSONDecodeError, as
\* json.loads does on a bad text; SystemExit, as sys.exit does)
Behaviours ==
    {Returned(NoneV),
     Returned(DictV([a |-> IntV(1)])),
     Returned(SetV(<<IntV(1)>>)),
     Raised("ValueError", "boom"),
     Raised("JSONDecodeError", "Expecting value: line 1 column 1 (char 0)"),
     Raised("SystemExit", "1")}

\* the body of the callable, run on its bound arguments
FuncBody(f, bound, b) ==
    CASE f = "add" -> Returned(IntV(bound["x"].n + bound["y"].n))
      [] f = "label" -> Returned(StrV("n" \o ToString(bound["x"].n - bound["y"].n)))
      [] f = "add2" -> Returned(IntV(0 - bound["y"].n))
      [] f = "opt" -> Returned(ListV(<<bound["a"], bound["b"], bound["c"],
                                       bound["d"]>>))
      [] f = "bad" -> Returned(bound["x"])
      [] OTHER -> b

\* func(**kwargs) dropping the keys that name no parameter
FuncCallIgnoresUnknown(f, kwargs, b) ==
    LET sig == Signature(f)
        unbound == SelectSeq(sig, LAMBDA p : ~p.has_default /\ p.name \notin DOMAIN kwargs)
    IN  IF Len(unbound) > 0
        THEN CallError("TypeError", FuncName(f) \o "() missing "
                    \o ToString(Len(unbound)) \o " required positional argument"
                    \o (IF Len(unbound) > 1 THEN "s" ELSE "") \o ": "
                    \o Join(" and ", [i \in 1..Len(unbound) |->
                                        "'" \o unbound[i].name \o "'"]))
        ELSE FuncBody(f, [k \in ParamNames(f) |->
                            IF k \in DOMAIN kwargs THEN kwargs[k]
                            ELSE sig[CHOOSE i \in 1..Len(sig) : sig[i].name = k].default],
                      b)

\* func(**kwargs): Python binds the keyword arguments to the parameters and
\* raises TypeError before the body runs when a key names no parameter or a
\* parameter without default gets no value.
FuncCall(f, kwargs, b) ==
    LET sig == Signature(f)
        unexpected == SelectSeq(Keys(kwargs), LAMBDA k : k \notin ParamNames(f))
        unbound == SelectSeq(sig, LAMBDA p : ~p.has_default /\ p.name \notin DOMAIN kwargs)
    IN  IF Len(unexpected) > 0
        THEN CallError("TypeError", FuncName(f)
                    \o "() got an unexpected keyword argument '"
                    \o unexpected[1] \o "'")
        ELSE IF Len(unbound) > 0
        THEN CallError("TypeError", FuncName(f) \o "() missing "
                    \o ToString(Len(unbound)) \o " required positional argument"
                    \o (IF Len(unbound) > 1 THEN "s" ELSE "") \o ": "
                    \o Join(" and ", [i \in 1..Len(unbound) |->
                                        "'" \o unbound[i].name \o "'"]))
        ELSE FuncBody(f, [k \in ParamNames(f) |->
                            IF k \in DOMAIN kwargs THEN kwargs[k]
                            ELSE sig[CHOOSE i \in 1..Len(sig) : sig[i].name = k].default],
                      b)

\* the message of the TypeError for more positional arguments than the
\* callable has positional parameters
TooManyPositional(f, given, kwonly_given) ==
    LET positional == SelectSeq(Signature(f), LAMBDA p : p.name \notin KeywordOnly(f))
        co_argcount == Len(positional)
        defcount == Len(SelectSeq(positional, LAMBDA p : p.has_default))
        sig == IF defcount > 0
               THEN "from " \o ToString(co_argcount - defcount) \o " to "
                        \o ToString(co_argcount)
               ELSE ToString(co_argcount)
        plural == defcount > 0 \/ co_argcount # 1
        kwonly_sig == IF kwonly_given > 0
                      THEN " positional argument"
                            \o (IF given # 1 THEN "s" ELSE "")
                            \o " (and " \o ToString(kwonly_given)
                            \o " keyword-only argument"
                            \o (IF kwonly_given # 1 THEN "s" ELSE "") \o ")"
                      ELSE ""
    IN  FuncName(f) \o "() takes " \o sig \o " positional argument"
            \o (IF plural THEN "s" ELSE "") \o " but " \o ToString(given)
            \o kwonly_sig \o " "
            \o (IF given = 1 /\ kwonly_given = 0 THEN "was" ELSE "were")
            \o " given"

\* func(*args, **kwargs): Python binds the positional arguments to the
\* first parameters, then the keyword arguments, in their order, and raises
\* TypeError before the body runs for a key that names no parameter or one
\* already bound, for too many positional arguments and for a parameter
\* without default left unbound.
PyCall(f, args, kwargs, b) ==
    LET sig == Signature(f)
        positional == SelectSeq(sig, LAMBDA p : p.name \notin KeywordOnly(f))
        given == Len(args)
        filled == {positional[i].name :
                    i \in 1..(IF given < Len(positional) THEN given
                              ELSE Len(positional))}
        offending == SelectSeq(Keys(kwargs),
                        LAMBDA k : k \notin ParamNames(f) \/ k \in filled)
        kwonly_given == Cardinality(KeywordOnly(f) \cap DOMAIN kwargs)
        unbound == SelectSeq(sig, LAMBDA p :
                        /\ ~p.has_default
                        /\ p.name \notin filled
                        /\ p.name \notin DOMAIN kwargs)
        missing == SelectSeq(unbound, LAMBDA p : p.name \notin KeywordOnly(f))
        kwmissing == SelectSeq(unbound, LAMBDA p : p.name \in KeywordOnly(f))
        Missing(ps, what) ==
            FuncName(f) \o "() missing " \o ToString(Len(ps)) \o " required "
                \o what \o " argument" \o (IF Len(ps) > 1 THEN "s" ELSE "")
                \o ": " \o Join(" and ", [i \in 1..Len(ps) |->
                                            "'" \o ps[i].name \o "'"])
    IN  IF Len(offending) > 0
        THEN CallError("TypeError", FuncName(f) \o
                (IF offending[1] \in filled
                 THEN "() got multiple values for argument '"
                 ELSE "() got an unexpected keyword argument '")
                \o offending[1] \o "'")
        ELSE IF given > Len(positional)
        THEN CallError("TypeError", TooManyPositional(f, given, kwonly_given))
        ELSE IF Len(missing) > 0
        THEN CallError("TypeError", Missing(missing, "positional"))
        ELSE IF Len(kwmissing) > 0
        THEN CallError("TypeError", Missing(kwmissing, "keyword-only"))
        ELSE FuncBody(f, [k \in ParamNames(f) |->
                            IF k \in filled
                            THEN args[CHOOSE i \in 1..Len(positional) :
                                            positional[i].name = k]
                            ELSE IF k \in DOMAIN kwargs THEN kwargs[k]
                            ELSE sig[CHOOSE i \in 1..Len(sig) : sig[i].name = k].default],
                      b)

(***************************************************************************)
(* Schema inference and registration.                                      *)
(***************************************************************************)
\* the letters, for str.lower
LowerCase ==
    <<"a", "b", "c", "d", "e", "f", "g", "h", "i", "j", "k", "l", "m">> \o
    <<"n", "o", "p", "q", "r", "s", "t", "u", "v", "w", "x", "y", "z">>

UpperCase ==
    <<"A", "B", "C", "D", "E", "F", "G", "H", "I", "J", "K", "L", "M">> \o
    <<"N", "O", "P", "Q", "R", "S", "T", "U", "V", "W", "X", "Y", "Z">>

\* text.lower()
Lower(text) ==
    [i \in 1..Len(text) |->
        IF \E j \in 1..Len(UpperCase) : UpperCase[j] = text[i]
        THEN LowerCase[CHOOSE j \in 1..Len(UpperCase) : UpperCase[j] = text[i]]
        ELSE text[i]]

\* sub in text
StrIn(sub, text) ==
    \E i \in 0..(Len(text) - Len(sub)) : SubSeq(text, i + 1, i + Len(sub)) = sub

\* type_mapping with bool given the type of int
TypeMappingBoolAsInt ==
    [str |-> "string", int |-> "integer", float |-> "number",
     bool |-> "integer", list |-> "array", dict |-> "object"]

\* type_mapping of _infer_param_type_from_annotation, keyed by the class
TypeMapping ==
    [str |-> "string", int |-> "integer", float |-> "number",
     bool |-> "boolean", list |-> "array", dict |-> "object"]

\* hash(annotation) succeeds: lists, dicts and sets are not hashable
Hashable(annotation) ==
    ~(annotation.form = "object" /\ annotation.name \in {"list", "dict", "set"})

\* _infer_param_type_from_annotation testing list and array before int
_infer_param_type_from_annotationListFirst(annotation) ==
    IF annotation.form \in {"empty", "none"}
    THEN Returned(StrV("string"))
    ELSE IF ~Hashable(annotation)
    THEN CallError("TypeError", "unhashable type: '" \o annotation.name \o "'")
    ELSE IF annotation.form = "class" /\ annotation.name \in DOMAIN TypeMapping
    THEN Returned(StrV(TypeMapping[annotation.name]))
    ELSE IF annotation.form = "generic" /\ annotation.name \in DOMAIN TypeMapping
    THEN Returned(StrV(TypeMapping[annotation.name]))
    ELSE IF annotation.form = "text"
    THEN LET lower_annotation == Lower(annotation.text)
         IN  IF StrIn(<<"l", "i", "s", "t">>, lower_annotation)
                \/ StrIn(<<"a", "r", "r", "a", "y">>, lower_annotation)
             THEN Returned(StrV("array"))
             ELSE IF StrIn(<<"i", "n", "t">>, lower_annotation)
             THEN Returned(StrV("integer"))
             ELSE IF StrIn(<<"f", "l", "o", "a", "t">>, lower_annotation)
                    \/ StrIn(<<"n", "u", "m", "b", "e", "r">>, lower_annotation)
             THEN Returned(StrV("number"))
             ELSE IF StrIn(<<"b", "o", "o", "l">>, lower_annotation)
             THEN Returned(StrV("boolean"))
             ELSE IF StrIn(<<"d", "i", "c", "t">>, lower_annotation)
                    \/ StrIn(<<"o", "b", "j", "e", "c", "t">>, lower_annotation)
             THEN Returned(StrV("object"))
             ELSE Returned(StrV("string"))
    ELSE Returned(StrV("string"))

\* MCP._infer_param_type_from_annotation: the type it returns, or the
\* TypeError of the lookup "annotation in type_mapping", which hashes the
\* annotation
_infer_param_type_from_annotation(annotation) ==
    IF annotation.form \in {"empty", "none"}
    THEN Returned(StrV("string"))
    ELSE IF ~Hashable(annotation)
    THEN CallError("TypeError", "unhashable type: '" \o annotation.name \o "'")
    ELSE IF annotation.form = "class" /\ annotation.name \in DOMAIN TypeMapping
    THEN Returned(StrV(TypeMapping[annotation.name]))
    ELSE IF annotation.form = "generic" /\ annotation.name \in DOMAIN TypeMapping
    THEN Returned(StrV(TypeMapping[annotation.name]))
    ELSE IF annotation.form = "text"
    THEN LET lower_annotation == Lower(annotation.text)
         IN  IF StrIn(<<"i", "n", "t">>, lower_annotation)
             THEN Returned(StrV("integer"))
             ELSE IF StrIn(<<"f", "l", "o", "a", "t">>, lower_annotation)
                    \/ StrIn(<<"n", "u", "m", "b", "e", "r">>, lower_annotation)
             THEN Returned(StrV("number"))
             ELSE IF StrIn(<<"b", "o", "o", "l">>, lower_annotation)
             THEN Returned(StrV("boolean"))
             ELSE IF StrIn(<<"l", "i", "s", "t">>, lower_annotation)
                    \/ StrIn(<<"a", "r", "r", "a", "y">>, lower_annotation)
             THEN Returned(StrV("array"))
             ELSE IF StrIn(<<"d", "i", "c", "t">>, lower_annotation)
                    \/ StrIn(<<"o", "b", "j", "e", "c", "t">>, lower_annotation)
             THEN Returned(StrV("object"))
             ELSE Returned(StrV("string"))
    ELSE Returned(StrV("string"))

\* text.strip(), for texts of one line
RECURSIVE Strip(_)
Strip(text) ==
    IF Len(text) = 0 THEN text
    ELSE IF text[1] \in {" ", "\t"} THEN Strip(Tail(text))
    ELSE IF text[Len(text)] \in {" ", "\t"} THEN Strip(SubSeq(text, 1, Len(text) - 1))
    ELSE text

\* text.startswith(prefix)
StartsWith(text, prefix) ==
    Len(prefix) <= Len(text) /\ SubSeq(text, 1, Len(prefix)) = prefix

\* text.split(':', 1)[1], for a text that holds a colon
AfterColon(text) ==
    LET i == CHOOSE i \in 1..Len(text) :
                text[i] = ":" /\ \A j \in 1..(i - 1) : text[j] # ":"
    IN  SubSeq(text, i + 1, Len(text))

\* the characters of a parameter name
NameChars(name) ==
    IF name = "userId" THEN <<"u", "s", "e", "r", "I", "d">> ELSE <<name>>

\* f"Parameter {name}"
DefaultDescription(name) == <<"P", "a", "r", "a", "m", "e", "t", "e", "r", " ">> \o NameChars(name)

\* the loop of MCP.add over the lines of the docstring, from line i on: the
\* first line that begins with the name or mentions the parameter ends it
RECURSIVE ScanDocLines(_, _, _)
ScanDocLines(doc_lines, name, i) ==
    IF i > Len(doc_lines) THEN DefaultDescription(name)
    ELSE LET line == Strip(doc_lines[i])
         IN  IF \/ StartsWith(line, NameChars(name) \o <<":">>)
                \/ StartsWith(line, <<"-", " ">> \o NameChars(name) \o <<":">>)
             THEN Strip(AfterColon(line))
             ELSE IF \/ StrIn(<<"p", "a", "r", "a", "m", " ">> \o NameChars(name), Lower(line))
                     \/ StrIn(<<"p", "a", "r", "a", "m", "e", "t", "e", "r", " ">> \o NameChars(name), Lower(line))
             THEN IF StrIn(<<":">>, line)
                  THEN Strip(AfterColon(line))
                  ELSE DefaultDescription(name)
             ELSE ScanDocLines(doc_lines, name, i + 1)

\* the description MCP.add gives the parameter name of a callable whose
\* docstring, stripped, has the lines doc_lines; no line when the callable
\* has no docstring or an empty one
ParamDescription(doc_lines, name) == ScanDocLines(doc_lines, name, 1)

\* the registry is a Python dict: a sequence of entries in insertion order
Lookup(reg, tool_name) == {i \in 1..Len(reg) : reg[i].name = tool_name}

\* ToolsGet falling back on the first record for a name it does not find
ToolsGetAny(reg, key) ==
    IF key.kind # "str" \/ (Lookup(reg, key.s) = {} /\ Len(reg) = 0) THEN NoneV
    ELSE IF Lookup(reg, key.s) = {} THEN reg[1].info
    ELSE reg[CHOOSE i \in Lookup(reg, key.s) : TRUE].info

\* self.tools.get(key) for a hashable key: the record, or NoneV
ToolsGet(reg, key) ==
    IF key.kind # "str" \/ Lookup(reg, key.s) = {} THEN NoneV
    ELSE reg[CHOOSE i \in Lookup(reg, key.s) : TRUE].info

\* register_tool putting a new name before the others
register_toolFront(reg, tool_name, tool_info) ==
    IF Lookup(reg, tool_name) = {}
    THEN <<[name |-> tool_name, info |-> tool_info]>> \o reg
    ELSE [i \in 1..Len(reg) |->
            IF reg[i].name = tool_name
            THEN [name |-> tool_name, info |-> tool_info]
            ELSE reg[i]]

\* register_tool keeping the record a name already has
register_toolKeepFirst(reg, tool_name, tool_info) ==
    IF Lookup(reg, tool_name) = {}
    THEN Append(reg, [name |-> tool_name, info |-> tool_info])
    ELSE reg

\* register_tool moving a name that is registered again behind the others
register_toolMoveToEnd(reg, tool_name, tool_info) ==
    Append(SelectSeq(reg, LAMBDA r : r.name # tool_name),
           [name |-> tool_name, info |-> tool_info])

\* MCP.register_tool: self.tools[tool_name] = tool_info
register_tool(reg, tool_name, tool_info) ==
    IF Lookup(reg, tool_name) = {}
    THEN Append(reg, [name |-> tool_name, info |-> tool_info])
    ELSE [i \in 1..Len(reg) |->
            IF reg[i].name = tool_name
            THEN [name |-> tool_name, info |-> tool_info]
            ELSE reg[i]]

\* MCP.list_tools: list(self.tools.keys())
list_tools(reg) == [i \in 1..Len(reg) |-> reg[i].name]

\* ToolInfo taking a parameter whose default is None as one without default
ToolInfoNoneRequired(tool_info_dict, func) ==
    LET sig == Signature(func)
        required == SelectSeq(sig, LAMBDA p : ~p.has_default \/ p.default = NoneV)
    IN  [kind |-> "tool_info",
         title |-> DictGet(tool_info_dict, "Title", NoneV),
         description |-> DictGet(tool_info_dict, "Description", NoneV),
         function |-> func,
         required_params |-> [i \in 1..Len(required) |-> required[i].name],
         properties |-> [i \in 1..Len(sig) |->
            [name |-> sig[i].name,
             type |-> _infer_param_type_from_annotation(sig[i].annotation).value.s,
             description |-> Join("", ParamDescription(Doc(func), sig[i].name))]]]

\* the record MCP.add builds from the signature and the docstring of func
ToolInfo(tool_info_dict, func) ==
    LET sig == Signature(func)
        required == SelectSeq(sig, LAMBDA p : ~p.has_default)
    IN  [kind |-> "tool_info",
         title |-> DictGet(tool_info_dict, "Title", NoneV),
         description |-> DictGet(tool_info_dict, "Description", NoneV),
         function |-> func,
         required_params |-> [i \in 1..Len(required) |-> required[i].name],
         properties |-> [i \in 1..Len(sig) |->
            [name |-> sig[i].name,
             type |-> _infer_param_type_from_annotation(sig[i].annotation).value.s,
             description |-> Join("", ParamDescription(Doc(func), sig[i].name))]]]

\* the metadata given to the decorator for a callable
ToolInfoDict(func) ==
    DictV([Title |-> StrV(FuncName(func)),
           Description |-> StrV("Tool " \o func)])

\* the function MCP.add returns for func: functools.wraps gives it the name
\* and the docstring of func
InnerWrapper(func) ==
    [kind |-> "function", name |-> FuncName(func), doc |-> Doc(func),
     wrapped |-> func]

\* inner_wrapper passing on the positional arguments only
inner_wrapperNoKwargs(w, args, kwargs, b) == PyCall(w.wrapped, args, EmptyMap, b)

\* inner_wrapper(*args, **kwargs) of MCP.add: return func(*args, **kwargs)
inner_wrapper(w, args, kwargs, b) == PyCall(w.wrapped, args, kwargs, b)

\* MCP.add(tool_info_dict)(func): the registry after the call and the
\* function returned, or the exception the inference of a type raised, the
\* registry then being as before
add(reg, tool_info_dict, func) ==
    LET sig == Signature(func)
        failed == SelectSeq(sig, LAMBDA p :
                    _infer_param_type_from_annotation(p.annotation).exc # "")
    IN  IF Len(failed) > 0
        THEN [tools |-> reg,
              returned |-> NoneV,
              exc |-> _infer_param_type_from_annotation(failed[1].annotation).exc,
              msg |-> _infer_param_type_from_annotation(failed[1].annotation).msg]
        ELSE [tools |-> register_tool(reg, FuncName(func),
                                      ToolInfo(tool_info_dict, func)),
              returned |-> InnerWrapper(func),
              exc |-> "",
              msg |-> ""]

(***************************************************************************)
(* Response builder.                                                       *)
(***************************************************************************)
\* _success_response leaving out an id that is falsy
_success_responseTruthyId(request_id, result) ==
    DictV([k \in {"jsonrpc", "result"}
                \cup (IF Truthy(request_id) THEN {"id"} ELSE {}) |->
            CASE k = "jsonrpc" -> StrV("2.0")
              [] k = "result" -> result
              [] OTHER -> request_id])

\* MCP._success_response
_success_response(request_id, result) ==
    DictV([k \in {"jsonrpc", "result"}
                \cup (IF request_id # NoneV THEN {"id"} ELSE {}) |->
            CASE k = "jsonrpc" -> StrV("2.0")
              [] k = "result" -> result
              [] OTHER -> request_id])

\* _error_response giving a null result beside the error
_error_responseWithResult(request_id, code, message, data) ==
    LET error == DictV([k \in {"code", "message"}
                            \cup (IF Truthy(data) THEN {"data"} ELSE {}) |->
                        CASE k = "code" -> IntV(code)
                          [] k = "message" -> StrV(message)
                          [] OTHER -> data])
    IN  DictV([k \in {"jsonrpc", "error", "result"}
                    \cup (IF request_id # NoneV THEN {"id"} ELSE {}) |->
                CASE k = "jsonrpc" -> StrV("2.0")
                  [] k = "error" -> error
                  [] k = "result" -> NoneV
                  [] OTHER -> request_id])

\* MCP._error_response
_error_response(request_id, code, message, data) ==
    LET error == DictV([k \in {"code", "message"}
                            \cup (IF Truthy(data) THEN {"data"} ELSE {}) |->
                        CASE k = "code" -> IntV(code)
                          [] k = "message" -> StrV(message)
                          [] OTHER -> data])
    IN  DictV([k \in {"jsonrpc", "error"}
                    \cup (IF request_id # NoneV THEN {"id"} ELSE {}) |->
                CASE k = "jsonrpc" -> StrV("2.0")
                  [] k = "error" -> error
                  [] OTHER -> request_id])

(***************************************************************************)
(* The dispatcher.  A call of run yields the envelope returned, the value  *)
(* of self.initialized after the call, the invocations it made and the     *)
(* type of the exception it let through ("" when it returned).             *)
(***************************************************************************)
\* Out with the call marking the session initialized
OutSetsFlag(resp, init, cs) ==
    [response |-> resp, initialized |-> TRUE, calls |-> cs, raised |-> ""]

\* a call of run that returned an envelope
Out(resp, init, cs) ==
    [response |-> resp, initialized |-> init, calls |-> cs, raised |-> ""]

\* exception types that do not derive from Exception
BaseExceptions == {"SystemExit", "KeyboardInterrupt", "GeneratorExit"}

\* Except with the handler resetting the session on an internal error
ExceptReset(exc, msg, request_id, init, cs) ==
    CASE exc = "JSONDecodeError" ->
            Out(_error_response(NoneV, -32700, "Parse error", StrV("Invalid JSON")),
                init, cs)
      [] exc \in BaseExceptions ->
            [response |-> NoneV, initialized |-> init, calls |-> cs, raised |-> exc]
      [] OTHER ->
            Out(_error_response(request_id, -32603, "Internal error",
                    StrV("An error occurred during tool execution: " \o msg)),
                FALSE, cs)

\* Except without the clause for json.JSONDecodeError
ExceptGeneric(exc, msg, request_id, init, cs) ==
    CASE exc \in BaseExceptions ->
            [response |-> NoneV, initialized |-> init, calls |-> cs, raised |-> exc]
      [] OTHER ->
            Out(_error_response(request_id, -32603, "Internal error",
                    StrV("An error occurred during tool execution: " \o msg)),
                init, cs)

\* the except clauses of MCP.run
Except(exc, msg, request_id, init, cs) ==
    CASE exc = "JSONDecodeError" ->
            Out(_error_response(NoneV, -32700, "Parse error", StrV("Invalid JSON")),
                init, cs)
      [] exc \in BaseExceptions ->
            [response |-> NoneV, initialized |-> init, calls |-> cs, raised |-> exc]
      [] OTHER ->
            Out(_error_response(request_id, -32603, "Internal error",
                    StrV("An error occurred during tool execution: " \o msg)),
                init, cs)

\* the result of MCP.initialize
InitializeResult(name, version) ==
    DictV([protocolVersion |-> StrV("2024-11-05"),
           capabilities |-> DictV([tools |-> DictV([listChanged |-> BoolV(FALSE)])]),
           serverInfo |-> DictV([name |-> StrV(name), version |-> StrV(version)])])

\* initialize reporting the default identity of the constructor
initializeDefaults(params, name, version) ==
    IF Truthy(params) /\ ~JsonSerializable(params)
    THEN CallError("TypeError", JsonDumpsError)
    ELSE Returned(InitializeResult("MCP Server", "1.0.0"))

\* MCP.initialize(params): raises when the debug line cannot serialize params,
\* otherwise sets self.initialized and returns the capabilities
initialize(params, name, version) ==
    IF Truthy(params) /\ ~JsonSerializable(params)
    THEN CallError("TypeError", JsonDumpsError)
    ELSE Returned(InitializeResult(name, version))

\* the "tools/list" branch of run: one schema per tool, in registry order
ToolsList(reg) ==
    ListV([i \in 1..Len(reg) |->
        DictV([name |-> StrV(reg[i].name),
               description |-> reg[i].info.description,
               inputSchema |-> DictV([
                    type |-> StrV("object"),
                    properties |-> DictV([k \in {reg[i].info.properties[j].name :
                                                 j \in 1..Len(reg[i].info.properties)} |->
                        LET j == CHOOSE j \in 1..Len(reg[i].info.properties) :
                                    reg[i].info.properties[j].name = k
                        IN  DictV([type |-> StrV(reg[i].info.properties[j].type),
                                   description |->
                                        StrV(reg[i].info.properties[j].description)])]),
                    required |-> ListV([j \in 1..Len(reg[i].info.required_params) |->
                                        StrV(reg[i].info.required_params[j])])])])])

\* "p in arguments" can be evaluated (arguments is never a str or a set in the
\* modelled requests)
Iterable(arguments) == arguments.kind \in {"dict", "list"}

\* p in arguments
Contains(arguments, p) ==
    IF arguments.kind = "dict" THEN p \in DOMAIN arguments.m
    ELSE \E i \in 1..Len(arguments.l) : arguments.l[i] = StrV(p)

\* MissingParams reporting every required parameter once one is missing
MissingParamsAll(required_params, arguments) ==
    IF \E i \in 1..Len(required_params) : ~Contains(arguments, required_params[i])
    THEN required_params
    ELSE <<>>

\* MissingParams asking for arguments when the mapping is empty
MissingParamsEmpty(required_params, arguments) ==
    IF arguments = DictV(EmptyMap) THEN <<"arguments">>
    ELSE SelectSeq(required_params, LAMBDA p : ~Contains(arguments, p))

\* [p for p in required_params if p not in arguments]
MissingParams(required_params, arguments) ==
    SelectSeq(required_params, LAMBDA p : ~Contains(arguments, p))

\* tool_func called without arguments when the arguments are no mapping
InvokeWithoutArguments(tool_info, arguments, b) ==
    FuncCall(tool_info.function,
             IF arguments.kind = "dict" THEN arguments.m ELSE EmptyMap, b)

\* tool_func(**arguments)
Invoke(tool_info, arguments, b) ==
    IF arguments.kind # "dict"
    THEN CallError("TypeError", FuncName(tool_info.function)
                \o "() argument after ** must be a mapping, not "
                \o TypeName(arguments))
    ELSE FuncCall(tool_info.function, arguments.m, b)

\* the invocation recorded when the body of a callable is entered
Invocation(tool_info, arguments, init) ==
    [function |-> tool_info.function, arguments |-> arguments,
     initialized |-> init]

\* {"content": [{"type": "text", "text": text}]}
ContentWrap(text) ==
    DictV([content |-> ListV(<<DictV([type |-> StrV("text"),
                                      text |-> StrV(text)])>>)])

\* ToolsCall looking the name up before it checks that there is one
ToolsCallLookupFirst(request_id, params, reg, init, b) ==
    IF params.kind # "dict"
    THEN Except("AttributeError",
                "'" \o TypeName(params) \o "' object has no attribute 'get'",
                request_id, init, <<>>)
    ELSE
    LET tool_name == DictGet(params, "name", NoneV)
        tool_arguments == DictGet(params, "arguments", DictV(EmptyMap))
        tool_info == ToolsGet(reg, tool_name)
    IN  IF tool_name.kind \in {"dict", "list", "set"}
        THEN Except("TypeError", "unhashable type: '" \o TypeName(tool_name) \o "'",
                    request_id, init, <<>>)
        ELSE IF tool_info.kind = "none"
        THEN Out(_error_response(request_id, -32601, "Method not found",
                    StrV("Tool '" \o PyStr(tool_name) \o "' not found")), init, <<>>)
        ELSE IF ~Truthy(tool_name)
        THEN Out(_error_response(request_id, -32602, "Invalid params",
                    StrV("Missing tool name in tools/call")), init, <<>>)
        ELSE IF ~JsonSerializable(tool_arguments)
        THEN Except("TypeError", JsonDumpsError, request_id, init, <<>>)
        ELSE IF Len(tool_info.required_params) > 0 /\ ~Iterable(tool_arguments)
        THEN Except("TypeError", "argument of type '" \o TypeName(tool_arguments)
                        \o "' is not iterable", request_id, init, <<>>)
        ELSE IF Len(MissingParams(tool_info.required_params, tool_arguments)) > 0
        THEN Out(_error_response(request_id, -32602, "Invalid params",
                    StrV("Missing required parameters: " \o
                         Join(", ", MissingParams(tool_info.required_params,
                                                  tool_arguments)))),
                 init, <<>>)
        ELSE
        LET o == Invoke(tool_info, tool_arguments, b)
            cs == IF o.ran THEN <<Invocation(tool_info, tool_arguments, init)>>
                  ELSE <<>>
        IN  IF o.exc # ""
            THEN Except(o.exc, o.msg, request_id, init, cs)
            ELSE IF o.value # NoneV /\ ~JsonSerializable(o.value)
            THEN Except("TypeError", JsonDumpsError, request_id, init, cs)
            ELSE Out(_success_response(request_id, ContentWrap(PyStr(o.value))),
                     init, cs)

\* the "tools/call" branch of run
ToolsCall(request_id, params, reg, init, b) ==
    IF params.kind # "dict"
    THEN Except("AttributeError",
                "'" \o TypeName(params) \o "' object has no attribute 'get'",
                request_id, init, <<>>)
    ELSE
    LET tool_name == DictGet(params, "name", NoneV)
        tool_arguments == DictGet(params, "arguments", DictV(EmptyMap))
        tool_info == ToolsGet(reg, tool_name)
    IN  IF ~Truthy(tool_name)
        THEN Out(_error_response(request_id, -32602, "Invalid params",
                    StrV("Missing tool name in tools/call")), init, <<>>)
        ELSE IF tool_name.kind \in {"dict", "list", "set"}
        THEN Except("TypeError", "unhashable type: '" \o TypeName(tool_name) \o "'",
                    request_id, init, <<>>)
        ELSE IF tool_info.kind = "none"
        THEN Out(_error_response(request_id, -32601, "Method not found",
                    StrV("Tool '" \o PyStr(tool_name) \o "' not found")), init, <<>>)
        ELSE IF ~JsonSerializable(tool_arguments)
        THEN Except("TypeError", JsonDumpsError, request_id, init, <<>>)
        ELSE IF Len(tool_info.required_params) > 0 /\ ~Iterable(tool_arguments)
        THEN Except("TypeError", "argument of type '" \o TypeName(tool_arguments)
                        \o "' is not iterable", request_id, init, <<>>)
        ELSE IF Len(MissingParams(tool_info.required_params, tool_arguments)) > 0
        THEN Out(_error_response(request_id, -32602, "Invalid params",
                    StrV("Missing required parameters: " \o
                         Join(", ", MissingParams(tool_info.required_params,
                                                  tool_arguments)))),
                 init, <<>>)
        ELSE
        LET o == Invoke(tool_info, tool_arguments, b)
            cs == IF o.ran THEN <<Invocation(tool_info, tool_arguments, init)>>
                  ELSE <<>>
        IN  IF o.exc # ""
            THEN Except(o.exc, o.msg, request_id, init, cs)
            ELSE IF o.value # NoneV /\ ~JsonSerializable(o.value)
            THEN Except("TypeError", JsonDumpsError, request_id, init, cs)
            ELSE Out(_success_response(request_id, ContentWrap(PyStr(o.value))),
                     init, cs)

\* the auto-initialization left out
AutoInitializeSkipped(init) == init

\* the auto-initialization of run: self.initialize() when not initialized
AutoInitialize(init) == TRUE

\* the last branch of run: the method is taken as the name of a tool
DirectCall(request_id, method, params, reg, init, b) ==
    LET init1 == IF ~init THEN AutoInitialize(init) ELSE init
        tool_info == ToolsGet(reg, method)
    IN  IF tool_info.kind = "none"
        THEN Out(_error_response(request_id, -32601, "Method not found",
                    StrV("Tool '" \o PyStr(method) \o "' not found")), init1, <<>>)
        ELSE IF ~JsonSerializable(params)
        THEN Except("TypeError", JsonDumpsError, request_id, init1, <<>>)
        ELSE IF Len(tool_info.required_params) > 0 /\ ~Iterable(params)
        THEN Except("TypeError", "argument of type '" \o TypeName(params)
                        \o "' is not iterable", request_id, init1, <<>>)
        ELSE IF Len(MissingParams(tool_info.required_params, params)) > 0
        THEN Out(_error_response(request_id, -32602, "Invalid params",
                    StrV("Missing required parameters: " \o
                         Join(", ", MissingParams(tool_info.required_params, params)))),
                 init1, <<>>)
        ELSE
        LET o == Invoke(tool_info, params, b)
            cs == IF o.ran THEN <<Invocation(tool_info, params, init1)>> ELSE <<>>
        IN  IF o.exc # ""
            THEN Except(o.exc, o.msg, request_id, init1, cs)
            ELSE IF o.value # NoneV /\ ~JsonSerializable(o.value)
            THEN Except("TypeError", JsonDumpsError, request_id, init1, cs)
            ELSE Out(_success_response(request_id, o.value), init1, cs)

(***************************************************************************)
(* JSON text.  A text is a sequence of tokens: the braces of the outer     *)
(* object, one token for each of its members (key and parsed value), or a  *)
(* single token for a text that is a complete value other than an object.  *)
(***************************************************************************)
Tok(tok, key, value) == [tok |-> tok, key |-> key, value |-> value]

\* json.dumps(v): the text of a value, members in insertion order
json_dumps(v) ==
    IF v.kind = "dict"
    THEN <<Tok("lbrace", "", NoneV)>>
         \o [i \in 1..Len(Keys(v.m)) |-> Tok("pair", Keys(v.m)[i], v.m[Keys(v.m)[i]])]
         \o <<Tok("rbrace", "", NoneV)>>
    ELSE <<Tok("value", "", v)>>

\* the text is well-formed JSON
WellFormed(text) ==
    \/ Len(text) = 1 /\ text[1].tok = "value"
    \/ /\ Len(text) >= 2
       /\ text[1].tok = "lbrace"
       /\ text[Len(text)].tok = "rbrace"
       /\ \A i \in 2..(Len(text) - 1) : text[i].tok = "pair"

\* json.loads(text): the value, or JSONDecodeError; a repeated key keeps its
\* last value
json_loads(text) ==
    IF ~WellFormed(text)
    THEN CallError("JSONDecodeError", "Expecting value: line 1 column 1 (char 0)")
    ELSE IF text[1].tok = "value" THEN Returned(text[1].value)
    ELSE Returned(DictV([k \in {text[i].key : i \in 2..(Len(text) - 1)} |->
            text[CHOOSE i \in 2..(Len(text) - 1) :
                    /\ text[i].key = k
                    /\ \A j \in (i + 1)..(Len(text) - 1) : text[j].key # k].value]))

\* the argument of run: a str (its text) or an already parsed value
StrRequest(text) == [is_str |-> TRUE, text |-> text, obj |-> NoneV]

ObjRequest(obj) == [is_str |-> FALSE, text |-> <<>>, obj |-> obj]

\* Dispatch looking the method up in the registry before it compares it with
\* the methods of the protocol
DispatchToolsFirst(request, reg, init, name, version, b) ==
    LET request_id == DictGet(request, "id", NoneV)
        method == DictGet(request, "method", NoneV)
        params == DictGet(request, "params", DictV(EmptyMap))
    IN  IF ~Truthy(method)
        THEN Out(_error_response(request_id, -32600, "Invalid Request",
                    StrV("Missing method")), init, <<>>)
        ELSE IF ToolsGet(reg, method).kind # "none"
        THEN DirectCall(request_id, method, params, reg, init, b)
        ELSE IF method = StrV("initialize")
        THEN LET r == initialize(params, name, version)
             IN  IF r.exc # "" THEN Except(r.exc, r.msg, request_id, init, <<>>)
                 ELSE Out(_success_response(request_id, r.value), TRUE, <<>>)
        ELSE IF method = StrV("initialized")
                \/ method = StrV("notifications/initialized")
        THEN Out(_success_response(request_id, DictV(EmptyMap)), init, <<>>)
        ELSE IF method = StrV("tools/list")
        THEN Out(_success_response(request_id, DictV([tools |-> ToolsList(reg)])),
                 init, <<>>)
        ELSE IF method = StrV("tools/call")
        THEN ToolsCall(request_id, params, reg, init, b)
        ELSE DirectCall(request_id, method, params, reg, init, b)

\* the part of run after the envelope is validated: extraction of id, method
\* and params, and the dispatch on the method
Dispatch(request, reg, init, name, version, b) ==
    LET request_id == DictGet(request, "id", NoneV)
        method == DictGet(request, "method", NoneV)
        params == DictGet(request, "params", DictV(EmptyMap))
    IN  IF ~Truthy(method)
        THEN Out(_error_response(request_id, -32600, "Invalid Request",
                    StrV("Missing method")), init, <<>>)
        ELSE IF method = StrV("initialize")
        THEN LET r == initialize(params, name, version)
             IN  IF r.exc # "" THEN Except(r.exc, r.msg, request_id, init, <<>>)
                 ELSE Out(_success_response(request_id, r.value), TRUE, <<>>)
        ELSE IF method = StrV("initialized")
                \/ method = StrV("notifications/initialized")
        THEN Out(_success_response(request_id, DictV(EmptyMap)), init, <<>>)
        ELSE IF method = StrV("tools/list")
        THEN Out(_success_response(request_id, DictV([tools |-> ToolsList(reg)])),
                 init, <<>>)
        ELSE IF method = StrV("tools/call")
        THEN ToolsCall(request_id, params, reg, init, b)
        ELSE DirectCall(request_id, method, params, reg, init, b)

\* run answering a bad version with the id of the request
runEchoId(rj, reg, init, name, version, b) ==
    LET parsed == IF rj.is_str THEN json_loads(rj.text) ELSE Returned(rj.obj)
        request == parsed.value
    IN  IF parsed.exc # ""
        THEN Except(parsed.exc, parsed.msg, NoneV, init, <<>>)
        ELSE IF ~rj.is_str /\ ~JsonSerializable(rj.obj)
        THEN Except("TypeError", JsonDumpsError, NoneV, init, <<>>)
        ELSE IF request.kind # "dict"
        THEN Except("AttributeError",
                    "'" \o TypeName(request) \o "' object has no attribute 'get'",
                    NoneV, init, <<>>)
        ELSE IF DictGet(request, "jsonrpc", NoneV) # StrV("2.0")
        THEN Out(_error_response(DictGet(request, "id", NoneV), -32600,
                    "Invalid Request",
                    StrV("Missing or invalid jsonrpc version")), init, <<>>)
        ELSE Dispatch(request, reg, init, name, version, b)

\* MCP.run(request_json)
run(rj, reg, init, name, version, b) ==
    LET parsed == IF rj.is_str THEN json_loads(rj.text) ELSE Returned(rj.obj)
        request == parsed.value
    IN  IF parsed.exc # ""
        THEN Except(parsed.exc, parsed.msg, NoneV, init, <<>>)
        ELSE IF ~rj.is_str /\ ~JsonSerializable(rj.obj)
        THEN Except("TypeError", JsonDumpsError, NoneV, init, <<>>)
        ELSE IF request.kind # "dict"
        THEN Except("AttributeError",
                    "'" \o TypeName(request) \o "' object has no attribute 'get'",
                    NoneV, init, <<>>)
        ELSE IF DictGet(request, "jsonrpc", NoneV) # StrV("2.0")
        THEN Out(_error_response(NoneV, -32600, "Invalid Request",
                    StrV("Missing or invalid jsonrpc version")), init, <<>>)
        ELSE Dispatch(request, reg, init, name, version, b)

(***************************************************************************)
(* The requests the model sends.                                           *)
(***************************************************************************)
\* marks a key left out of a mapping
Absent == Val("absent", 0, "", EmptyMap, <<>>)

\* the dict with the entries of m whose value is not Absent
MakeDict(m) == DictV([k \in {k \in DOMAIN m : m[k] # Absent} |-> m[k]])

ArgValues == {Absent} \cup {IntV(i) : i \in 1..MaxArg}

\* arguments: x and y given or not, one mapping with a key z that no callable
\* declares, no mapping at all, and null
AllArgs ==
    {MakeDict([x |-> x, y |-> y]) : x \in ArgValues, y \in ArgValues}
    \cup {DictV([x |-> IntV(1), y |-> IntV(1), z |-> IntV(1)]), Absent, NoneV}

\* the arguments of the texts that do not parse
FewArgs == {DictV([x |-> IntV(1), y |-> IntV(1)]), Absent}

Ids == {Absent, NoneV, StrV("a")} \cup {IntV(i) : i \in 0..MaxId}

Versions == {Absent, StrV("2.0"), StrV("1.0")}

RegisteredNames(reg) == {StrV(reg[i].name) : i \in 1..Len(reg)}

BuiltinMethods ==
    {StrV("initialize"), StrV("initialized"), StrV("notifications/initialized"),
     StrV("tools/list")}

\* params of a tools/call request
CallParams(reg, args) ==
    (args \cap {Absent, NoneV})
    \cup {MakeDict([name |-> n, arguments |-> a]) :
            n \in RegisteredNames(reg) \cup {Absent, StrV(""), StrV("unknown")},
            a \in args}

Envelope(jsonrpc, method, params, id) ==
    MakeDict([jsonrpc |-> jsonrpc, method |-> method, params |-> params, id |-> id])

\* the envelopes with these arguments: tools/call for the registered names and
\* an unknown one, and every other method with the arguments as its params
Envelopes(reg, args) ==
    {Envelope(v, StrV("tools/call"), p, id) :
        v \in Versions, p \in CallParams(reg, args), id \in Ids}
    \cup {Envelope(v, m, p, id) :
        v \in Versions,
        m \in BuiltinMethods \cup RegisteredNames(reg)
                \cup {Absent, StrV(""), StrV("unknown")},
        p \in args, id \in Ids}

\* the values given to run, parsed or as text; null and [] are no envelopes
Requests(reg) == Envelopes(reg, AllArgs) \cup {NoneV, ListV(<<>>)}

\* the request names compute, as its method or as the tool of a tools/call
NamesCompute(e) ==
    /\ e.kind = "dict"
    /\ \/ DictGet(e, "method", NoneV) = StrV("compute")
       \/ /\ DictGet(e, "params", NoneV).kind = "dict"
          /\ DictGet(DictGet(e, "params", NoneV), "name", NoneV) = StrV("compute")

\* the behaviours to try for a request
BehavioursFor(e) == IF NamesCompute(e) THEN Behaviours ELSE {Returned(NoneV)}

\* a text cut before its closing brace
Truncated(text) == SubSeq(text, 1, Len(text) - 1)

(***************************************************************************)
(* The process around the server: the loggers of the logging module, which *)
(* logging.getLogger keeps by name for the whole process, a second MCP     *)
(* instance, and the threads that call run.                                *)
(***************************************************************************)
\* the levels of the logging module
NOTSET == 0

DEBUG == 10

INFO == 20

CRITICAL == 50

\* the names the host program gives to its servers
ServerNames == {"Test Server", "Test_Server", "Other"}

\* the characters of a server name
ServerNameChars(name) ==
    CASE name = "Test Server" -> <<"T", "e", "s", "t", " ", "S", "e", "r", "v", "e", "r">>
      [] name = "Test_Server" -> <<"T", "e", "s", "t", "_", "S", "e", "r", "v", "e", "r">>
      [] name = "MCP Server" -> <<"M", "C", "P", " ", "S", "e", "r", "v", "e", "r">>
      [] OTHER -> <<name>>

\* f"MCP.{name.replace(' ', '_')}"
LoggerName(name) ==
    "MCP." \o Join("", [i \in 1..Len(ServerNameChars(name)) |->
                            IF ServerNameChars(name)[i] = " " THEN "_"
                            ELSE ServerNameChars(name)[i]])

\* logging.getLogger(name): the logger of that name, made at the first call
\* with level NOTSET and no handler
getLogger(L, name) ==
    IF name \in DOMAIN L THEN L[name] ELSE [level |-> NOTSET, handlers |-> <<>>]

\* the loggers after the logger of that name has changed
WithLogger(L, name, logger) ==
    [n \in DOMAIN L \cup {name} |-> IF n = name THEN logger ELSE L[n]]

\* the logging set-up of MCP.__init__
SetUpLogging(L, name, log_level, enable) ==
    LET logger == getLogger(L, LoggerName(name))
    IN  WithLogger(L, LoggerName(name),
            IF enable
            THEN [level |-> log_level,
                  handlers |-> IF logger.handlers = <<>> THEN <<"StreamHandler">>
                               ELSE logger.handlers]
            ELSE [level |-> CRITICAL + 1,
                  handlers |-> IF logger.handlers = <<>> THEN <<"NullHandler">>
                               ELSE logger.handlers])

\* MCP.set_log_level(level) on a server of that name
set_log_level(L, name, enabled, level) ==
    IF enabled
    THEN WithLogger(L, LoggerName(name),
                    [getLogger(L, LoggerName(name)) EXCEPT !.level = level])
    ELSE L

\* MCP.enable_logs(enable, log_level) on a server of that name
enable_logs(L, name, enable, log_level) ==
    LET logger == getLogger(L, LoggerName(name))
        others == SelectSeq(logger.handlers, LAMBDA h : h # "StreamHandler")
    IN  WithLogger(L, LoggerName(name),
            IF enable
            THEN [level |-> log_level,
                  handlers |-> IF \E i \in 1..Len(logger.handlers) :
                                      logger.handlers[i] = "StreamHandler"
                               THEN logger.handlers
                               ELSE Append(logger.handlers, "StreamHandler")]
            ELSE [level |-> CRITICAL + 1,
                  handlers |-> IF others = <<>> THEN <<"NullHandler">> ELSE others])

\* the dict a new instance gets as self.tools: one made for that instance
NewRegistry(instance) == instance

\* no second instance constructed
NoPeer ==
    [constructed |-> FALSE, server_name |-> "", server_version |-> "",
     registry |-> "", tools |-> <<>>, initialized |-> FALSE,
     enable_logging |-> FALSE, ops |-> 0]

\* a thread that is not inside run
NoThread ==
    [pc |-> "idle", request |-> NoneV, behaviour |-> Returned(NoneV),
     response |-> NoneV, raised |-> "", calls |-> <<>>]

Threads == 1..MaxThreads

(***************************************************************************)
(* The state machine.                                                      *)
(***************************************************************************)
\* no operation probed
NoProbe == [op |-> "none"]

\* MCP.__init__
Init ==
    /\ tools = <<>>
    /\ initialized = FALSE
    /\ server_name = "Test Server"
    /\ server_version = "2.1.0"
    /\ request_json = ObjRequest(NoneV)
    /\ response = NoneV
    /\ raised = ""
    /\ calls = <<>>
    /\ entry = FALSE
    /\ behaviour = Returned(NoneV)
    /\ registered = <<>>
    /\ pc = "idle"
    /\ probe = NoProbe
    /\ enable_logging = FALSE
    /\ loggers = SetUpLogging(<<>>, "Test Server", INFO, FALSE)
    /\ peer = NoPeer
    /\ threads = [t \in Threads |-> NoThread]

\* the registrations made so far, after the one of func under name
RecordAs(history, name, func) ==
    IF \E i \in 1..Len(history) : history[i].name = name
    THEN [i \in 1..Len(history) |->
            IF history[i].name = name
            THEN [history[i] EXCEPT !.last = func]
            ELSE history[i]]
    ELSE Append(history, [name |-> name, first |-> func, last |-> func])

\* the registrations made so far, after the one of func by the decorator
Record(history, func) == RecordAs(history, FuncName(func), func)

\* @server.add(tool_info_dict) applied to a callable
Add(func) ==
    /\ pc = "idle"
    /\ \/ Len(tools) < MaxTools
       \/ Lookup(tools, FuncName(func)) # {}
    /\ tools' = add(tools, ToolInfoDict(func), func).tools
    /\ registered' = Record(registered, func)
    /\ UNCHANGED <<initialized, server_name, server_version,
                   request_json, response, raised, calls, entry, behaviour, pc,
                   probe,
                   hostVars>>

\* run emptying the registry
RunForgetsTools(rj, b) ==
    LET out == run(rj, tools, initialized, server_name, server_version, b)
    IN  /\ pc' = "returned"
        /\ entry' = initialized
        /\ behaviour' = b
        /\ request_json' = rj
        /\ response' = out.response
        /\ initialized' = out.initialized
        /\ calls' = out.calls
        /\ raised' = out.raised
        /\ tools' = <<>>
        /\ UNCHANGED <<server_name, server_version, registered, probe, hostVars>>

\* server.run(rj), the body of compute doing b if the call reaches it
Run(rj, b) ==
    LET out == run(rj, tools, initialized, server_name, server_version, b)
    IN  /\ pc' = "returned"
        /\ entry' = initialized
        /\ behaviour' = b
        /\ request_json' = rj
        /\ response' = out.response
        /\ initialized' = out.initialized
        /\ calls' = out.calls
        /\ raised' = out.raised
        /\ UNCHANGED <<tools, server_name, server_version, registered, probe,
                   hostVars>>

\* run on an already parsed request
RunObject ==
    /\ pc = "idle"
    /\ \E e \in Requests(tools) : \E b \in BehavioursFor(e) : Run(ObjRequest(e), b)

\* run on the text of a request
RunText ==
    /\ pc = "idle"
    /\ \E e \in Requests(tools) : \E b \in BehavioursFor(e) :
            Run(StrRequest(json_dumps(e)), b)

\* run on a text that does not parse
RunMalformed ==
    /\ pc = "idle"
    /\ \E e \in Envelopes(tools, FewArgs) :
            Run(StrRequest(Truncated(json_dumps(e))), Returned(NoneV))

Register == \E func \in Funcs : Add(func)

\* the caller takes the response; the request and the response of the call
\* are gone, the server keeps its registry and its flag
ReturnToCaller ==
    /\ pc = "returned"
    /\ pc' = "idle"
    /\ request_json' = ObjRequest(NoneV)
    /\ response' = NoneV
    /\ raised' = ""
    /\ calls' = <<>>
    /\ entry' = FALSE
    /\ behaviour' = Returned(NoneV)
    /\ UNCHANGED <<tools, initialized, server_name, server_version, registered,
                   probe,
                   hostVars>>

Next == Register \/ RunObject \/ RunText \/ RunMalformed \/ ReturnToCaller

Spec == Init /\ [][Next]_vars

\* a callable declared under a name that may be registered already
Redefine == \E func \in Redefinitions : Add(func)

\* run on a parsed envelope of version "2.0"
RunEnvelope ==
    /\ pc = "idle"
    /\ \E e \in {e \in Envelopes(tools, AllArgs) :
                    DictGet(e, "jsonrpc", NoneV) = StrV("2.0")} :
            \E b \in BehavioursFor(e) : Run(ObjRequest(e), b)

NextRedefine == Register \/ Redefine \/ RunEnvelope \/ ReturnToCaller

\* the server of a program that declares two callables under one name
SpecRedefine == Init /\ [][NextRedefine]_vars

(***************************************************************************)
(* The operations of the server the host program calls besides run, each   *)
(* taken alone on a new server: probe keeps the arguments of the call and  *)
(* what the call gave back.                                                *)
(***************************************************************************)
\* the state of the server and of its last call of run
serverVars == <<tools, initialized, server_name, server_version,
                request_json, response, raised, calls, entry, behaviour,
                registered, pc>>

\* ids given to the response builders: None, falsy ones and truthy ones
BuilderIds ==
    {NoneV, IntV(0), StrV(""), BoolV(FALSE), StrV("a")} \cup {IntV(i) : i \in 1..MaxId}

\* results given to _success_response
BuilderResults == {NoneV, DictV(EmptyMap), DictV([a |-> IntV(1)])}

\* the codes and messages run gives to _error_response
BuilderErrors ==
    {<<-32700, "Parse error">>, <<-32600, "Invalid Request">>,
     <<-32601, "Method not found">>, <<-32602, "Invalid params">>,
     <<-32603, "Internal error">>}

\* data given to _error_response: absent (None), falsy and truthy values
BuilderData ==
    {NoneV, StrV(""), IntV(0), BoolV(FALSE), ListV(<<>>), DictV(EmptyMap),
     StrV("Invalid JSON"), IntV(1), ListV(<<IntV(0)>>), DictV([a |-> NoneV])}

\* self._success_response(request_id, result)
SuccessResponse ==
    /\ pc = "idle"
    /\ probe = NoProbe
    /\ \E request_id \in BuilderIds, result \in BuilderResults :
            probe' = [op |-> "_success_response",
                      request_id |-> request_id,
                      result |-> result,
                      returned |-> _success_response(request_id, result)]
    /\ UNCHANGED <<serverVars, hostVars>>

\* self._error_response(request_id, code, message, data)
ErrorResponse ==
    /\ pc = "idle"
    /\ probe = NoProbe
    /\ \E request_id \in BuilderIds, e \in BuilderErrors, data \in BuilderData :
            probe' = [op |-> "_error_response",
                      request_id |-> request_id,
                      code |-> e[1],
                      message |-> e[2],
                      data |-> data,
                      returned |-> _error_response(request_id, e[1], e[2], data)]
    /\ UNCHANGED <<serverVars, hostVars>>

\* the inputs of _infer_param_type_from_annotation
Classes == {"str", "int", "float", "bool", "list", "dict", "tuple", "set", "K"}

\* the type arguments of a generic or of a union, outermost classes only:
\* List[int], Dict[str, List[int]], Optional[int], ...
TypeArgs == {<<"int">>, <<"str">>, <<"str", "list">>, <<"int", "NoneType">>}

\* List[...], Dict[...], Tuple[...], Set[...], and Union[...] or Optional[...]
Generics == {Generic(o, a) : o \in {"list", "dict", "tuple", "set", "Union"},
                             a \in TypeArgs}

\* objects that are neither classes nor texts: 5, 3.5, ('a',), [int],
\* {'a': 1}, {1, 2}
Objects == {Object(t) : t \in {"int", "float", "tuple", "list", "dict", "set"}}

\* the pieces texts are made of
Words ==
    {<<"i", "n", "t">>,
     <<"F", "l", "o", "a", "t">>,
     <<"n", "u", "m", "b", "e", "r">>,
     <<"B", "O", "O", "L">>,
     <<"L", "i", "s", "t">>,
     <<"a", "r", "r", "a", "y">>,
     <<"D", "i", "c", "t">>,
     <<"o", "b", "j", "e", "c", "t">>,
     <<"s", "t", "r">>,
     <<"[">>}

\* the texts of at most n words
RECURSIVE Texts(_)
Texts(n) ==
    IF n = 0 THEN {<<>>}
    ELSE Texts(n - 1) \cup {t \o w : t \in Texts(n - 1), w \in Words}

Annotations ==
    {Empty, NoneAnnotation}
        \cup {Class(c) : c \in Classes}
        \cup Generics
        \cup {UnionType(a) : a \in TypeArgs}
        \cup {Text(t) : t \in Texts(MaxWords)}
        \cup Objects

\* self._infer_param_type_from_annotation(annotation)
Infer ==
    /\ pc = "idle"
    /\ probe = NoProbe
    /\ \E annotation \in Annotations :
            probe' = [op |-> "_infer_param_type_from_annotation",
                      annotation |-> annotation,
                      outcome |-> _infer_param_type_from_annotation(annotation)]
    /\ UNCHANGED <<serverVars, hostVars>>

\* lines of docstrings: lines that begin with a name, lines that mention a
\* parameter, with and without colon, and a line that does neither
DocLines ==
    {<<"x", ":", " ", "f", "i", "r", "s", "t">>,
     <<" ", " ", "-", " ", "x", ":", " ", "d", "a", "s", "h">>,
     <<"p", "a", "r", "a", "m", " ", "x", ":", " ", "s", "e", "c", "o", "n", "d">>,
     <<"T", "h", "e", " ", "P", "A", "R", "A", "M", "E", "T", "E", "R", " ", "x", " ", "i", "s", " ", "t", "h", "i", "r", "d">>,
     <<"o", "t", "h", "e", "r", ":", " ", "t", "e", "x", "t">>,
     <<"u", "s", "e", "r", "I", "d", ":", " ", "t", "h", "e", " ", "i", "d">>,
     <<"p", "a", "r", "a", "m", " ", "u", "s", "e", "r", "I", "d", ":", " ", "t", "h", "e", " ", "u", "s", "e", "r">>}

\* the docstrings of at most n lines
RECURSIVE Docs(_)
Docs(n) ==
    IF n = 0 THEN {<<>>}
    ELSE Docs(n - 1) \cup {Append(d, l) : d \in Docs(n - 1), l \in DocLines}

\* the parameter names described
DocNames == {"x", "userId"}

\* the description MCP.add records for the parameter name of a callable
\* whose docstring is doc
Describe ==
    /\ pc = "idle"
    /\ probe = NoProbe
    /\ \E doc \in Docs(MaxLines), name \in DocNames :
            probe' = [op |-> "param_description",
                      doc |-> doc,
                      name |-> name,
                      description |-> ParamDescription(doc, name)]
    /\ UNCHANGED <<serverVars, hostVars>>

\* @server.add(tool_info_dict) applied by the host program to one of the
\* callables it declares: probe keeps the function returned, or the
\* exception
Decorate ==
    /\ pc = "idle"
    /\ probe = NoProbe
    /\ \E func \in Declared :
            LET r == add(tools, ToolInfoDict(func), func)
            IN  /\ tools' = r.tools
                /\ registered' = IF r.exc = "" THEN Record(registered, func)
                                  ELSE registered
                /\ probe' = [op |-> "add", func |-> func,
                             returned |-> r.returned, exc |-> r.exc]
    /\ UNCHANGED <<initialized, server_name, server_version, request_json,
                   response, raised, calls, entry, behaviour, pc,
                   hostVars>>

\* positional arguments: at most MaxPos values
ArgLists ==
    UNION {[1..n -> {IntV(i) : i \in 0..MaxArg}] : n \in 0..MaxPos}

\* keyword arguments: some of the parameters and the key z
KwargsFor(func) ==
    UNION {[S -> {IntV(i) : i \in 1..MaxArg}] :
                S \in SUBSET (ParamNames(func) \cup {"z"})}

\* the host program calls the function the decorator returned
CallDecorated ==
    /\ pc = "idle"
    /\ probe.op = "add"
    /\ probe.exc = ""
    /\ \E args \in ArgLists, kwargs \in KwargsFor(probe.func),
          b \in (IF probe.func = "compute" THEN Behaviours ELSE {Returned(NoneV)}) :
            probe' = [op |-> "inner_wrapper",
                      func |-> probe.func,
                      args |-> args,
                      kwargs |-> kwargs,
                      behaviour |-> b,
                      outcome |-> inner_wrapper(probe.returned, args, kwargs, b)]
    /\ UNCHANGED <<serverVars, hostVars>>

NextParts ==
    \/ SuccessResponse
    \/ ErrorResponse
    \/ Infer
    \/ Describe
    \/ Decorate
    \/ CallDecorated

\* a new server, one operation called on it
SpecParts == Init /\ [][NextParts]_vars

\* a record the host program builds itself for register_tool
DirectInfo(func, required_params, properties) ==
    [kind |-> "tool_info",
     title |-> StrV("Direct"),
     description |-> StrV("Registered directly"),
     function |-> func,
     required_params |-> required_params,
     properties |-> properties]

\* records built by hand: two that list the parameters of the callable, two
\* that name a required parameter without describing it
DirectInfos ==
    {DirectInfo("compute", <<>>, <<>>),
     DirectInfo("add", <<"x", "y">>,
                <<[name |-> "x", type |-> "integer", description |-> "left"],
                  [name |-> "y", type |-> "integer", description |-> "right"]>>),
     DirectInfo("add", <<"x", "y">>, <<>>),
     DirectInfo("label", <<"x", "y">>,
                <<[name |-> "x", type |-> "integer", description |-> "left"]>>)}

\* the names the host program gives to register_tool
DirectNames == {"direct", "add"}

\* server.register_tool(tool_name, tool_info) called by the host program
RegisterDirect ==
    /\ pc = "idle"
    /\ \E tool_name \in DirectNames, tool_info \in DirectInfos :
            /\ \/ Len(tools) < MaxTools
               \/ Lookup(tools, tool_name) # {}
            /\ tools' = register_tool(tools, tool_name, tool_info)
            /\ registered' = RecordAs(registered, tool_name, tool_info.function)
    /\ UNCHANGED <<initialized, server_name, server_version, request_json,
                   response, raised, calls, entry, behaviour, pc, probe,
                   hostVars>>

NextRegistry == Register \/ Redefine \/ RegisterDirect

\* the registrations of a host program that uses the decorator and
\* register_tool
SpecRegistry == Init /\ [][NextRegistry]_vars

(***************************************************************************)
(* Requests that carry a value where a mapping is expected: a text that    *)
(* parses to a value other than an object, and envelopes of version "2.0"  *)
(* whose params, or the arguments of their tools/call, are null, a number  *)
(* or an array.                                                            *)
(***************************************************************************)
\* the values given in the place of a mapping
NonMappings ==
    {NoneV, IntV(1), ListV(<<>>), ListV(<<StrV("x"), StrV("y")>>)}

\* the values of the texts that are no object
NonObjects == {NoneV, IntV(1), StrV("a"), ListV(<<>>)}

\* the envelopes of version "2.0" with such a value as params or as the
\* arguments of a tools/call
NonMappingEnvelopes(reg) ==
    {Envelope(StrV("2.0"), StrV("tools/call"), p, id) :
        p \in NonMappings
              \cup {MakeDict([name |-> n, arguments |-> a]) :
                        n \in RegisteredNames(reg) \cup {Absent, StrV("unknown")},
                        a \in NonMappings},
        id \in Ids}
    \cup {Envelope(StrV("2.0"), m, p, id) :
        m \in BuiltinMethods \cup RegisteredNames(reg) \cup {Absent, StrV("unknown")},
        p \in NonMappings, id \in Ids}

\* run on such an envelope, parsed or as text
RunNonMapping ==
    /\ pc = "idle"
    /\ \E e \in NonMappingEnvelopes(tools) : \E b \in BehavioursFor(e) :
            \/ Run(ObjRequest(e), b)
            \/ Run(StrRequest(json_dumps(e)), b)

\* run on the text of a value that is no object
RunNonObject ==
    /\ pc = "idle"
    /\ \E v \in NonObjects : Run(StrRequest(json_dumps(v)), Returned(NoneV))

NextNonMapping == Register \/ RunNonMapping \/ RunNonObject \/ ReturnToCaller

\* the server given requests that hold no mapping where one is expected
SpecNonMapping == Init /\ [][NextNonMapping]_vars

(***************************************************************************)
(* Tools registered under the name of a method of the protocol.  The       *)
(* registry maps any name to a record: the decorator registers a callable  *)
(* named initialize under "initialize", register_tool takes any text.      *)
(***************************************************************************)
\* the names of the methods of the protocol
ProtocolNames ==
    {"initialize", "initialized", "notifications/initialized", "tools/list",
     "tools/call"}

\* server.register_tool(tool_name, tool_info) with such a name, for a
\* callable without parameters
RegisterProtocolName ==
    /\ pc = "idle"
    /\ \E tool_name \in ProtocolNames :
            /\ \/ Len(tools) < MaxTools
               \/ Lookup(tools, tool_name) # {}
            /\ tools' = register_tool(tools, tool_name,
                                      DirectInfo("compute", <<>>, <<>>))
            /\ registered' = RecordAs(registered, tool_name, "compute")
    /\ UNCHANGED <<initialized, server_name, server_version, request_json,
                   response, raised, calls, entry, behaviour, pc, probe,
                   hostVars>>

\* run on a parsed envelope of version "2.0" without arguments, the body of
\* the callable returning or raising
RunProtocolName ==
    /\ pc = "idle"
    /\ \E e \in {e \in Envelopes(tools, {Absent, DictV(EmptyMap)}) :
                    DictGet(e, "jsonrpc", NoneV) = StrV("2.0")} :
            \E b \in {Returned(NoneV), Raised("ValueError", "boom")} :
                Run(ObjRequest(e), b)

NextProtocolNames == RegisterProtocolName \/ RunProtocolName \/ ReturnToCaller

\* the server of a host program that registers tools under the names of the
\* methods of the protocol
SpecProtocolNames == Init /\ [][NextProtocolNames]_vars

(***************************************************************************)
(* Two MCP instances in one process.  The host program constructs a second *)
(* instance, under the name of the first or under another name, registers  *)
(* tools on both, sends requests to both and sets up the logging of both.  *)
(***************************************************************************)
\* MCP.__init__ of the class keeping one registry for all its instances
ConstructPeerClassRegistry(name, enable) ==
    /\ ~peer.constructed
    /\ peer' = [constructed |-> TRUE, server_name |-> name,
                server_version |-> "1.0.0", registry |-> "server",
                tools |-> <<>>, initialized |-> FALSE,
                enable_logging |-> enable, ops |-> 1]
    /\ loggers' = SetUpLogging(loggers, name, INFO, enable)
    /\ UNCHANGED <<serverVars, probe, enable_logging, threads>>

\* peer = MCP(name, enable_logging = enable)
ConstructPeer(name, enable) ==
    /\ ~peer.constructed
    /\ peer' = [constructed |-> TRUE, server_name |-> name,
                server_version |-> "1.0.0", registry |-> NewRegistry("peer"),
                tools |-> <<>>, initialized |-> FALSE,
                enable_logging |-> enable, ops |-> 1]
    /\ loggers' = SetUpLogging(loggers, name, INFO, enable)
    /\ UNCHANGED <<serverVars, probe, enable_logging, threads>>

\* peer.tools: the dict the second instance holds
PeerTools == IF peer.registry = "peer" THEN peer.tools ELSE tools

\* the host program calls one more operation of the second instance
PeerCall == peer.constructed /\ peer.ops < MaxPeerOps /\ pc = "idle"

\* @peer.add(tool_info_dict) applied to a callable
AddPeer(func) ==
    LET reg == add(PeerTools, ToolInfoDict(func), func).tools
    IN  /\ PeerCall
        /\ \/ Len(PeerTools) < MaxTools
           \/ Lookup(PeerTools, FuncName(func)) # {}
        /\ IF peer.registry = "peer"
           THEN /\ peer' = [peer EXCEPT !.tools = reg, !.ops = @ + 1]
                /\ UNCHANGED tools
           ELSE /\ peer' = [peer EXCEPT !.ops = @ + 1]
                /\ tools' = reg
        /\ UNCHANGED <<initialized, server_name, server_version, request_json,
                       response, raised, calls, entry, behaviour, registered, pc,
                       probe, enable_logging, loggers, threads>>

\* the requests sent in a process with two instances: the handshake, the
\* listing and a direct call of each registered tool
ServerRequests(reg) ==
    {Envelope(StrV("2.0"), m, DictV([x |-> IntV(1), y |-> IntV(1)]), IntV(1)) :
        m \in {StrV("initialize"), StrV("tools/list")} \cup RegisteredNames(reg)}

\* peer.run(request); the host program drops the response
RunPeer ==
    /\ PeerCall
    /\ \E e \in ServerRequests(PeerTools) :
        LET out == run(ObjRequest(e), PeerTools, peer.initialized,
                       peer.server_name, peer.server_version, Returned(NoneV))
        IN  peer' = [peer EXCEPT !.initialized = out.initialized,
                                 !.ops = @ + 1]
    /\ UNCHANGED <<serverVars, probe, enable_logging, loggers, threads>>

\* peer.set_log_level(logging.DEBUG)
PeerSetLogLevel ==
    /\ PeerCall
    /\ loggers' = set_log_level(loggers, peer.server_name, peer.enable_logging, DEBUG)
    /\ peer' = [peer EXCEPT !.ops = @ + 1]
    /\ UNCHANGED <<serverVars, probe, enable_logging, threads>>

\* peer.enable_logs(enable)
PeerEnableLogs ==
    /\ PeerCall
    /\ \E enable \in BOOLEAN :
        /\ loggers' = enable_logs(loggers, peer.server_name, enable, INFO)
        /\ peer' = [peer EXCEPT !.enable_logging = enable, !.ops = @ + 1]
    /\ UNCHANGED <<serverVars, probe, enable_logging, threads>>

\* server.set_log_level(logging.DEBUG)
SetLogLevel ==
    /\ pc = "idle"
    /\ loggers' = set_log_level(loggers, server_name, enable_logging, DEBUG)
    /\ UNCHANGED <<serverVars, probe, enable_logging, peer, threads>>

\* server.enable_logs(enable)
EnableLogs ==
    /\ pc = "idle"
    /\ \E enable \in BOOLEAN :
        /\ loggers' = enable_logs(loggers, server_name, enable, INFO)
        /\ enable_logging' = enable
    /\ UNCHANGED <<serverVars, probe, peer, threads>>

\* server.run(request)
RunServer ==
    /\ pc = "idle"
    /\ \E e \in ServerRequests(tools) : Run(ObjRequest(e), Returned(NoneV))

Construct == \E name \in ServerNames, enable \in BOOLEAN : ConstructPeer(name, enable)

RegisterPeer == \E func \in Funcs : AddPeer(func)

NextServers ==
    \/ Register \/ RunServer \/ ReturnToCaller \/ SetLogLevel \/ EnableLogs
    \/ Construct \/ RegisterPeer \/ RunPeer \/ PeerSetLogLevel \/ PeerEnableLogs

\* a host program with two servers
SpecServers == Init /\ [][NextServers]_vars

(***************************************************************************)
(* Threads inside run.  The host program registers its tools, then several *)
(* threads call run on the same server, each with the handshake or with a  *)
(* direct call.  A step of a thread is one statement that reads or writes   *)
(* the state of the server; the statements between two of them work on the *)
(* locals of the call.                                                     *)
(***************************************************************************)
\* the requests of the threads: initialize, a direct call of a registered
\* tool without params, and a direct call of a tool that is not registered
ThreadRequests(reg) ==
    {Envelope(StrV("2.0"), m, Absent, IntV(1)) :
        m \in {StrV("initialize"), StrV("unknown")} \cup RegisteredNames(reg)}

\* what the body of compute does in a call made by a thread
ThreadBehaviours(e) ==
    IF NamesCompute(e)
    THEN {Returned(DictV([a |-> IntV(1)])), Raised("ValueError", "boom"),
          Raised("SystemExit", "1")}
    ELSE {Returned(NoneV)}

\* the tools are registered before the threads start
RegisterFirst ==
    /\ \A t \in Threads : threads[t].pc = "idle"
    /\ Register

\* run is entered: the request is parsed and checked, its id, method and
\* params are taken
ThreadEnter(t) ==
    /\ pc = "idle"
    /\ threads[t].pc = "idle"
    /\ \E e \in ThreadRequests(tools) : \E b \in ThreadBehaviours(e) :
        threads' = [threads EXCEPT ![t] =
            [NoThread EXCEPT !.pc = IF DictGet(e, "method", NoneV) = StrV("initialize")
                                    THEN "initialize" ELSE "test",
                             !.request = e,
                             !.behaviour = b]]
    /\ UNCHANGED <<serverVars, probe, enable_logging, loggers, peer>>

\* initialize clearing the flag when it finds it set
ThreadInitializeToggles(t) ==
    /\ threads[t].pc = "initialize"
    /\ initialized' = ~initialized
    /\ threads' = [threads EXCEPT ![t].pc = "respond"]
    /\ UNCHANGED <<tools, server_name, server_version, request_json, response,
                   raised, calls, entry, behaviour, registered, pc, probe,
                   enable_logging, loggers, peer>>

\* the initialize branch up to self.initialized = True
ThreadInitialize(t) ==
    /\ threads[t].pc = "initialize"
    /\ initialized' = TRUE
    /\ threads' = [threads EXCEPT ![t].pc = "respond"]
    /\ UNCHANGED <<tools, server_name, server_version, request_json, response,
                   raised, calls, entry, behaviour, registered, pc, probe,
                   enable_logging, loggers, peer>>

\* the rest of the initialize branch: the result and the response
ThreadRespond(t) ==
    /\ threads[t].pc = "respond"
    /\ threads' = [threads EXCEPT ![t] =
            [@ EXCEPT !.pc = "done",
                      !.response = _success_response(
                            DictGet(threads[t].request, "id", NoneV),
                            InitializeResult(server_name, server_version))]]
    /\ UNCHANGED <<serverVars, probe, enable_logging, loggers, peer>>

\* if not self.initialized
ThreadTest(t) ==
    /\ threads[t].pc = "test"
    /\ threads' = [threads EXCEPT ![t].pc = IF ~initialized THEN "auto" ELSE "lookup"]
    /\ UNCHANGED <<serverVars, probe, enable_logging, loggers, peer>>

\* self.initialize() of the auto-initialization
ThreadAutoInitialize(t) ==
    /\ threads[t].pc = "auto"
    /\ initialized' = AutoInitialize(initialized)
    /\ threads' = [threads EXCEPT ![t].pc = "lookup"]
    /\ UNCHANGED <<tools, server_name, server_version, request_json, response,
                   raised, calls, entry, behaviour, registered, pc, probe,
                   enable_logging, loggers, peer>>

\* the rest of the direct call: the lookup, the check of the parameters, the
\* call of the tool and the response, or the exception that leaves run
ThreadExecute(t) ==
    /\ threads[t].pc = "lookup"
    /\ LET request == threads[t].request
           out == DirectCall(DictGet(request, "id", NoneV),
                             DictGet(request, "method", NoneV),
                             DictGet(request, "params", DictV(EmptyMap)),
                             tools, initialized, threads[t].behaviour)
       IN  threads' = [threads EXCEPT ![t] =
                [@ EXCEPT !.pc = "done",
                          !.response = out.response,
                          !.raised = out.raised,
                          !.calls = out.calls]]
    /\ UNCHANGED <<serverVars, probe, enable_logging, loggers, peer>>

\* the next statement of a thread
ThreadStep(t) ==
    \/ ThreadInitialize(t) \/ ThreadRespond(t)
    \/ ThreadTest(t) \/ ThreadAutoInitialize(t) \/ ThreadExecute(t)

NextThreads ==
    \/ RegisterFirst
    \/ \E t \in Threads : ThreadEnter(t) \/ ThreadStep(t)

\* several threads calling run on one server that was not initialized
SpecThreads == Init /\ [][NextThreads]_vars

(***************************************************************************)
(* What the last request asked for, read from the request itself.          *)
(***************************************************************************)
\* the text of the last request parses, or the request was given parsed
Parses == ~request_json.is_str \/ WellFormed(request_json.text)

\* the value the last request carries
Request ==
    IF request_json.is_str THEN json_loads(request_json.text).value
    ELSE request_json.obj

\* run has returned from an envelope with jsonrpc "2.0"
ValidEnvelope ==
    /\ pc = "returned"
    /\ Parses
    /\ Request.kind = "dict"
    /\ DictGet(Request, "jsonrpc", NoneV) = StrV("2.0")

ReqId == DictGet(Request, "id", NoneV)

ReqMethod == DictGet(Request, "method", NoneV)

ReqParams == DictGet(Request, "params", DictV(EmptyMap))

ProtocolMethods ==
    {StrV("initialize"), StrV("initialized"), StrV("notifications/initialized"),
     StrV("tools/list"), StrV("tools/call")}

IsToolsCall ==
    ValidEnvelope /\ ReqMethod = StrV("tools/call") /\ ReqParams.kind = "dict"

IsDirect ==
    /\ ValidEnvelope
    /\ ReqMethod.kind = "str"
    /\ ReqMethod.s # ""
    /\ ReqMethod \notin ProtocolMethods

\* the name of the tool the request addresses, and the arguments it gives
TargetName == IF IsToolsCall THEN DictGet(ReqParams, "name", NoneV) ELSE ReqMethod

TargetArgs ==
    IF IsToolsCall THEN DictGet(ReqParams, "arguments", DictV(EmptyMap))
    ELSE ReqParams

\* the request addresses a registered tool and gives it a mapping
AddressesTool ==
    /\ IsToolsCall \/ IsDirect
    /\ TargetName.kind = "str"
    /\ Lookup(tools, TargetName.s) # {}
    /\ TargetArgs.kind = "dict"

TargetFunc == tools[CHOOSE i \in Lookup(tools, TargetName.s) : TRUE].info.function

\* the parameters the callable declares without default, in declared order
DeclaredRequired(f) ==
    LET required == SelectSeq(Signature(f), LAMBDA p : ~p.has_default)
    IN  [i \in 1..Len(required) |-> required[i].name]

\* the required parameters the request leaves out, in declared order
Omitted ==
    SelectSeq(DeclaredRequired(TargetFunc), LAMBDA p : p \notin DOMAIN TargetArgs.m)

\* what the callable does when called with the arguments of the request
CallOutcome == FuncCall(TargetFunc, TargetArgs.m, behaviour)

\* the envelopes of the wire format
SuccessEnvelope(id, result) ==
    IF id = NoneV
    THEN DictV([jsonrpc |-> StrV("2.0"), result |-> result])
    ELSE DictV([jsonrpc |-> StrV("2.0"), result |-> result, id |-> id])

ErrorEnvelope(id, code, message, data) ==
    LET error == DictV([code |-> IntV(code), message |-> StrV(message),
                        data |-> StrV(data)])
    IN  IF id = NoneV
        THEN DictV([jsonrpc |-> StrV("2.0"), error |-> error])
        ELSE DictV([jsonrpc |-> StrV("2.0"), error |-> error, id |-> id])

\* the code of an error envelope
ErrorCode == response.m["error"].m["code"].n

IsError == response.kind = "dict" /\ "error" \in DOMAIN response.m

(***************************************************************************)
(* The claims.                                                             *)
(***************************************************************************)
\* C1: a tools/call that gives a registered tool all its required parameters,
\* the callable returning a value v, returns the success envelope whose result
\* is {content: [{type: "text", text: str(v)}]}, whatever the kind of v.
C1_ToolsCallWrapsResult ==
    (IsToolsCall /\ AddressesTool /\ Len(Omitted) = 0 /\ CallOutcome.exc = "")
    => /\ raised = ""
       /\ response = SuccessEnvelope(ReqId,
            DictV([content |-> ListV(<<DictV([type |-> StrV("text"),
                        text |-> StrV(PyStr(CallOutcome.value))])>>)]))

\* C2: a tools/call or a direct call that leaves out the required parameters M
\* of a registered tool, M not empty, returns error -32602 "Invalid params"
\* whose data is "Missing required parameters: " and the names of M, joined
\* by ", " in declared order.
C2_MissingListedInOrder ==
    (AddressesTool /\ Len(Omitted) > 0)
    => response = ErrorEnvelope(ReqId, -32602, "Invalid params",
                    "Missing required parameters: " \o Join(", ", Omitted))

\* a tools/call that gives x and leaves out y
C2_Witness ==
    /\ IsToolsCall
    /\ AddressesTool
    /\ Omitted = <<"y">>
    /\ "x" \in DOMAIN TargetArgs.m
    /\ IsError

\* C3: when the body of a registered tool raises, through tools/call or
\* direct dispatch, run returns error -32603 "Internal error" with the
\* message of the failure in data, and lets nothing through to its caller.
C3_ToolFailureIsInternalError ==
    (AddressesTool /\ Len(Omitted) = 0 /\ CallOutcome.ran /\ CallOutcome.exc # "")
    => /\ raised = ""
       /\ response = ErrorEnvelope(ReqId, -32603, "Internal error",
            "An error occurred during tool execution: " \o CallOutcome.msg)

\* C4: when the body of a tool raises, the error envelope carries the id of
\* the request, for every id that is a string or a number.
C4_FailureKeepsId ==
    (/\ AddressesTool /\ Len(Omitted) = 0
     /\ CallOutcome.ran /\ CallOutcome.exc # ""
     /\ ReqId.kind \in {"str", "int"})
    => /\ IsError
       /\ "id" \in DOMAIN response.m
       /\ response.m["id"] = ReqId

\* C5: for every envelope that passes the version check the response carries
\* the id of the request, and no id key when the request has no id or a null
\* one, for every method and for success and error alike.
C5_IdEchoed ==
    ValidEnvelope
    => /\ response.kind = "dict"
       /\ IF ReqId = NoneV THEN "id" \notin DOMAIN response.m
          ELSE "id" \in DOMAIN response.m /\ response.m["id"] = ReqId

\* C6: a direct call that gives a registered tool all its required parameters,
\* the callable returning v, returns success with result v itself, whatever
\* the kind of v.
C6_DirectReturnsRawResult ==
    (IsDirect /\ AddressesTool /\ Len(Omitted) = 0 /\ CallOutcome.exc = "")
    => /\ raised = ""
       /\ response = SuccessEnvelope(ReqId, CallOutcome.value)

\* C7: whenever run invokes a tool callable, through tools/call or direct
\* dispatch, self.initialized is true at that moment.
C7_InitializedWhenInvoked ==
    \A i \in 1..Len(calls) : calls[i].initialized

\* C8: once self.initialized is true no run call and no registration makes it
\* false again.
C8_InitializedOneWay == [][initialized => initialized']_vars

\* a failing tools/call on a server that was initialized before the call
C8_Witness ==
    /\ IsToolsCall
    /\ entry
    /\ initialized
    /\ IsError
    /\ Len(calls) = 1

\* C9: an initialize request never fails: it returns success with
\* {protocolVersion: "2024-11-05", capabilities: {tools: {listChanged: false}},
\* serverInfo: {name, version}} of the server, and initialized is true after
\* it, also when the server was initialized before.
C9_InitializeIdempotent ==
    (ValidEnvelope /\ ReqMethod = StrV("initialize"))
    => /\ raised = ""
       /\ initialized
       /\ response = SuccessEnvelope(ReqId,
            DictV([protocolVersion |-> StrV("2024-11-05"),
                   capabilities |->
                        DictV([tools |-> DictV([listChanged |-> BoolV(FALSE)])]),
                   serverInfo |-> DictV([name |-> StrV(server_name),
                                         version |-> StrV(server_version)])]))

\* an initialize request, with params, on a server already initialized
C9_Witness ==
    /\ ValidEnvelope
    /\ ReqMethod = StrV("initialize")
    /\ entry
    /\ Truthy(ReqParams)
    /\ "result" \in DOMAIN response.m

\* C10: a text that does not parse yields error -32700 "Parse error" without
\* id, no tool is invoked, and the flag and the registry are as before.
C10_ParseErrorTerminal ==
    [][(pc' = "returned" /\ request_json'.is_str /\ ~WellFormed(request_json'.text))
        => /\ raised' = ""
           /\ response'.kind = "dict"
           /\ DOMAIN response'.m = {"jsonrpc", "error"}
           /\ response'.m["error"].m["code"] = IntV(-32700)
           /\ response'.m["error"].m["message"] = StrV("Parse error")
           /\ calls' = <<>>
           /\ initialized' = initialized
           /\ tools' = tools]_vars

\* a malformed text that holds an id, sent to an initialized server with tools
C10_Witness ==
    /\ pc = "returned"
    /\ request_json.is_str
    /\ ~WellFormed(request_json.text)
    /\ \E i \in 1..Len(request_json.text) :
            /\ request_json.text[i].key = "id"
            /\ request_json.text[i].value = IntV(1)
    /\ initialized
    /\ Len(tools) > 0
    /\ IsError

\* the names registered so far
RegisteredSoFar == {registered[i].name : i \in 1..Len(registered)}

\* C11: a request envelope whose jsonrpc member is absent or is not "2.0"
\* gets error -32600 "Invalid Request" without id, also when it carries one;
\* nothing is dispatched: no tool is invoked and self.initialized is as
\* before, whatever the method.
C11_BadVersionRejected ==
    [][(/\ pc' = "returned"
        /\ Parses'
        /\ Request'.kind = "dict"
        /\ DictGet(Request', "jsonrpc", NoneV) # StrV("2.0"))
        => /\ raised' = ""
           /\ response'.kind = "dict"
           /\ DOMAIN response'.m = {"jsonrpc", "error"}
           /\ response'.m["jsonrpc"] = StrV("2.0")
           /\ response'.m["error"].m["code"] = IntV(-32600)
           /\ response'.m["error"].m["message"] = StrV("Invalid Request")
           /\ calls' = <<>>
           /\ initialized' = initialized]_vars

\* an initialize request of version "1.0" with an id, on a fresh server
C11_Witness ==
    /\ pc = "returned"
    /\ Parses
    /\ Request.kind = "dict"
    /\ DictGet(Request, "jsonrpc", NoneV) = StrV("1.0")
    /\ ReqMethod = StrV("initialize")
    /\ ReqId = IntV(1)
    /\ ~entry
    /\ ~initialized
    /\ IsError

\* C12: an envelope of version "2.0" whose method is absent or empty gets
\* error -32600 "Invalid Request" with data "Missing method" and the id of the
\* request; no tool is invoked and self.initialized is as before.
C12_MissingMethodRejected ==
    [][(ValidEnvelope' /\ ReqMethod' \in {NoneV, StrV("")})
        => /\ raised' = ""
           /\ response' = ErrorEnvelope(ReqId', -32600, "Invalid Request",
                                        "Missing method")
           /\ calls' = <<>>
           /\ initialized' = initialized]_vars

\* an empty method with an id, sent to a server with tools
C12_Witness ==
    /\ ValidEnvelope
    /\ ReqMethod = StrV("")
    /\ ReqId = StrV("a")
    /\ Len(tools) > 0
    /\ IsError
    /\ "id" \in DOMAIN response.m

\* C13: a tools/call whose params.name, or a direct call whose method, is a
\* name never registered gets error -32601 "Method not found" with data
\* "Tool '<name>' not found" and the id of the request; no tool is invoked.
C13_UnknownToolNotFound ==
    (/\ IsToolsCall \/ IsDirect
     /\ TargetName.kind = "str"
     /\ TargetName.s # ""
     /\ TargetName.s \notin RegisteredSoFar)
    => /\ raised = ""
       /\ response = ErrorEnvelope(ReqId, -32601, "Method not found",
                        "Tool '" \o TargetName.s \o "' not found")
       /\ calls = <<>>

\* a tools/call with an id for an unknown name, on a server with tools
C13_Witness ==
    /\ IsToolsCall
    /\ TargetName = StrV("unknown")
    /\ ReqId = IntV(0)
    /\ Len(tools) > 0
    /\ IsError
    /\ "id" \in DOMAIN response.m

\* C14: a tools/call whose params hold no name, or an empty one, or that has
\* no params at all, gets error -32602 "Invalid params" with data
\* "Missing tool name in tools/call", whatever tools are registered.
C14_MissingToolName ==
    (IsToolsCall /\ DictGet(ReqParams, "name", NoneV) \in {NoneV, StrV("")})
    => /\ raised = ""
       /\ response = ErrorEnvelope(ReqId, -32602, "Invalid params",
                        "Missing tool name in tools/call")
       /\ calls = <<>>

\* a tools/call without params, on a server with tools
C14_Witness ==
    /\ IsToolsCall
    /\ "params" \notin DOMAIN Request.m
    /\ Len(tools) > 0
    /\ IsError

\* the callable registered last under a name
LastRegistered(name) ==
    registered[CHOOSE i \in 1..Len(registered) : registered[i].name = name].last

\* the request addresses a name that was registered
AddressesRegistered ==
    /\ IsToolsCall \/ IsDirect
    /\ TargetName.kind = "str"
    /\ TargetName.s \in RegisteredSoFar

\* the callable the request addresses
Called == LastRegistered(TargetName.s)

\* C15: a tools/call or a direct call that gives an empty arguments mapping
\* to a tool whose callable has no parameter without default never gets
\* error -32602: the callable is invoked.
C15_NoParamErrorWithoutRequired ==
    (/\ AddressesRegistered
     /\ DeclaredRequired(Called) = <<>>
     /\ TargetArgs = DictV(EmptyMap))
    => /\ ~(IsError /\ ErrorCode = -32602)
       /\ Len(calls) = 1
       /\ calls[1].function = Called

\* a tools/call with empty arguments on a callable whose only parameter has a
\* default, answered with a result
C15_Witness ==
    /\ IsToolsCall
    /\ AddressesRegistered
    /\ Len(Signature(Called)) > 0
    /\ DeclaredRequired(Called) = <<>>
    /\ TargetArgs = DictV(EmptyMap)
    /\ "result" \in DOMAIN response.m

\* the entry tools/list gives for a callable registered under a name
ListedTool(name, f) ==
    DictV([name |-> StrV(name),
           description |-> DictGet(ToolInfoDict(f), "Description", NoneV),
           inputSchema |-> DictV([
                type |-> StrV("object"),
                properties |-> DictV([k \in ParamNames(f) |->
                    LET p == Signature(f)[CHOOSE i \in 1..Len(Signature(f)) :
                                            Signature(f)[i].name = k]
                    IN  DictV([type |->
                                _infer_param_type_from_annotation(p.annotation).value,
                               description |-> StrV("Parameter " \o k)])]),
                required |-> ListV([i \in 1..Len(DeclaredRequired(f)) |->
                                        StrV(DeclaredRequired(f)[i])])])])

\* C16: list_tools gives the registered names in the order of their
\* registration, and tools/list returns success with one entry per registered
\* tool in that order, each {name, description, inputSchema: {type: "object",
\* properties, required}} with the parameters and the required list of the
\* tool.
C16_ToolsListInRegistrationOrder ==
    /\ list_tools(tools) = [i \in 1..Len(registered) |-> registered[i].name]
    /\ (ValidEnvelope /\ ReqMethod = StrV("tools/list"))
       => /\ raised = ""
          /\ response = SuccessEnvelope(ReqId,
                DictV([tools |-> ListV([i \in 1..Len(registered) |->
                    ListedTool(registered[i].name, registered[i].last)])]))

\* tools/list on a server where label was registered before add
C16_Witness ==
    /\ ValidEnvelope
    /\ ReqMethod = StrV("tools/list")
    /\ Len(registered) = 2
    /\ registered[1].name = "label"
    /\ registered[2].name = "add"
    /\ "result" \in DOMAIN response.m
    /\ Len(response.m["result"].m["tools"].l) = 2

\* C17: every envelope run returns has jsonrpc "2.0" and exactly one of the
\* keys result and error; an error is an object with an integer code and a
\* string message, and a success holds the result itself: the value the
\* callable returned for a direct call, {} for the initialized notification.
C17_ResultXorError ==
    (pc = "returned" /\ raised = "")
    => /\ response.kind = "dict"
       /\ DOMAIN response.m \subseteq {"jsonrpc", "result", "error", "id"}
       /\ response.m["jsonrpc"] = StrV("2.0")
       /\ ("result" \in DOMAIN response.m) # ("error" \in DOMAIN response.m)
       /\ "error" \in DOMAIN response.m
          => /\ response.m["error"].kind = "dict"
             /\ {"code", "message"} \subseteq DOMAIN response.m["error"].m
             /\ response.m["error"].m["code"].kind = "int"
             /\ response.m["error"].m["message"].kind = "str"
       /\ (/\ IsDirect
           /\ AddressesRegistered
           /\ TargetArgs.kind = "dict"
           /\ "result" \in DOMAIN response.m)
          => response.m["result"] = FuncCall(Called, TargetArgs.m, behaviour).value
       /\ (/\ ValidEnvelope
           /\ ReqMethod \in {StrV("initialized"), StrV("notifications/initialized")})
          => response = SuccessEnvelope(ReqId, DictV(EmptyMap))

\* a direct call whose callable returned a mapping, answered with that mapping
C17_Witness ==
    /\ IsDirect
    /\ AddressesRegistered
    /\ behaviour = Returned(DictV([a |-> IntV(1)]))
    /\ Len(calls) = 1
    /\ "result" \in DOMAIN response.m
    /\ response.m["result"] = DictV([a |-> IntV(1)])
    /\ "error" \notin DOMAIN response.m

\* C18: run is total: whatever the request and whatever the failure (parse,
\* protocol, parameters, unknown tool, failure inside the tool), run returns
\* an envelope and lets no exception through to its caller.
C18_RunTotal ==
    pc = "returned" => (raised = "" /\ response.kind = "dict")

\* the required parameters of the addressed callable that the request omits
OmittedOf(f) ==
    SelectSeq(DeclaredRequired(f), LAMBDA p : p \notin DOMAIN TargetArgs.m)

\* C19: the code of every error envelope is one of -32700, -32600, -32601,
\* -32602, -32603, and each kind of failure has its own code: a text that does
\* not parse -32700, a bad envelope -32600, an unknown tool -32601, a missing
\* tool name or a missing required argument -32602, a failure inside the tool
\* -32603.
C19_FailureCodes ==
    (pc = "returned" /\ raised = "")
    => /\ IsError => ErrorCode \in {-32700, -32600, -32601, -32602, -32603}
       /\ ~Parses => (IsError /\ ErrorCode = -32700)
       /\ (/\ Parses
           /\ Request.kind = "dict"
           /\ \/ DictGet(Request, "jsonrpc", NoneV) # StrV("2.0")
              \/ ReqMethod \in {NoneV, StrV("")})
          => (IsError /\ ErrorCode = -32600)
       /\ (/\ IsToolsCall \/ IsDirect
           /\ TargetName.kind = "str"
           /\ TargetName.s # ""
           /\ TargetName.s \notin RegisteredSoFar)
          => (IsError /\ ErrorCode = -32601)
       /\ (IsToolsCall /\ DictGet(ReqParams, "name", NoneV) \in {NoneV, StrV("")})
          => (IsError /\ ErrorCode = -32602)
       /\ (/\ AddressesRegistered
           /\ TargetArgs.kind = "dict"
           /\ Len(OmittedOf(Called)) > 0)
          => (IsError /\ ErrorCode = -32602)
       /\ (/\ AddressesRegistered
           /\ TargetArgs.kind = "dict"
           /\ Len(OmittedOf(Called)) = 0
           /\ FuncCall(Called, TargetArgs.m, behaviour).ran
           /\ FuncCall(Called, TargetArgs.m, behaviour).exc # "")
          => (IsError /\ ErrorCode = -32603)

\* C20: a callable registered under a name that is already registered takes
\* the place of the record of that name: the registry holds exactly one
\* record per name, that of the callable registered last, and every
\* tools/call, direct call and tools/list answers from it (its callable, its
\* description, its parameters and its required list).
C20_LastRegistrationWins ==
    /\ Len(tools) = Len(registered)
    /\ \A i \in 1..Len(registered) :
        LET f == registered[i].last
        IN  /\ Cardinality(Lookup(tools, registered[i].name)) = 1
            /\ \A j \in Lookup(tools, registered[i].name) :
                /\ tools[j].info.function = f
                /\ tools[j].info.description
                        = DictGet(ToolInfoDict(f), "Description", NoneV)
                /\ tools[j].info.required_params = DeclaredRequired(f)
                /\ {tools[j].info.properties[k].name :
                        k \in 1..Len(tools[j].info.properties)} = ParamNames(f)
    /\ (AddressesRegistered /\ TargetArgs.kind = "dict")
       => /\ \A k \in 1..Len(calls) : calls[k].function = Called
          /\ IF Len(OmittedOf(Called)) > 0
             THEN /\ calls = <<>>
                  /\ response = ErrorEnvelope(ReqId, -32602, "Invalid params",
                        "Missing required parameters: "
                            \o Join(", ", OmittedOf(Called)))
             ELSE FuncCall(Called, TargetArgs.m, behaviour).ran => Len(calls) = 1
    /\ (ValidEnvelope /\ ReqMethod = StrV("tools/list"))
       => "result" \in DOMAIN response.m
          /\ response.m["result"] =
                DictV([tools |-> ListV([i \in 1..Len(registered) |->
                    ListedTool(registered[i].name, registered[i].last)])])

\* a tools/call of add after add2 took the place of add, beside another tool:
\* add2 is invoked and the call succeeds
C20_Witness ==
    /\ IsToolsCall
    /\ AddressesRegistered
    /\ Len(tools) = 2
    /\ \E i \in 1..Len(registered) :
            /\ registered[i].name = TargetName.s
            /\ registered[i].first = "add"
            /\ registered[i].last = "add2"
    /\ Len(calls) = 1
    /\ calls[1].function = "add2"
    /\ "result" \in DOMAIN response.m

\* C21: no call of run changes the registry: the names, their order and
\* every record are after the call what they were before it, whatever the
\* method and the params, whether the call succeeds or fails.
C21_RunKeepsRegistry ==
    [][(pc' = "returned") => (tools' = tools /\ registered' = registered)]_vars

\* a call of run that invoked one of two registered tools
C21_Witness ==
    /\ pc = "returned"
    /\ Len(tools) = 2
    /\ Len(calls) = 1
    /\ raised = ""

\* C30: the methods "initialized" and "notifications/initialized" get the
\* success envelope whose result is the empty mapping and change no state:
\* self.initialized is as before, no tool is invoked, the registry is as
\* before.
C30_InitializedIsNoOp ==
    [][(/\ pc' = "returned"
        /\ ValidEnvelope'
        /\ ReqMethod' \in {StrV("initialized"), StrV("notifications/initialized")})
       => /\ response' = SuccessEnvelope(ReqId', DictV(EmptyMap))
          /\ raised' = ""
          /\ initialized' = initialized
          /\ calls' = <<>>
          /\ tools' = tools]_vars

\* the notification answered before any initialize, one tool registered
C30_Witness ==
    /\ ValidEnvelope
    /\ ReqMethod = StrV("notifications/initialized")
    /\ ~initialized
    /\ Len(tools) > 0
    /\ response = SuccessEnvelope(ReqId, DictV(EmptyMap))

\* the values Python takes as false among those given as data
Falsy == {NoneV, StrV(""), IntV(0), BoolV(FALSE), ListV(<<>>), DictV(EmptyMap)}

\* C29: the error object built by _error_response has a data member exactly
\* when the data given is truthy, and then it is that data; both builders
\* give the envelope an id member exactly when the id given is not None, and
\* then it is that id: the ids 0 and "" are kept.
C29_BuildersDataAndId ==
    /\ probe.op = "_error_response"
       => LET error == probe.returned.m["error"]
          IN  /\ DOMAIN probe.returned.m \subseteq {"jsonrpc", "error", "id"}
              /\ ("data" \in DOMAIN error.m) <=> (probe.data \notin Falsy)
              /\ ("data" \in DOMAIN error.m) => error.m["data"] = probe.data
              /\ error.m["code"] = IntV(probe.code)
              /\ error.m["message"] = StrV(probe.message)
    /\ probe.op \in {"_error_response", "_success_response"}
       => /\ ("id" \in DOMAIN probe.returned.m) <=> (probe.request_id # NoneV)
          /\ ("id" \in DOMAIN probe.returned.m)
                => probe.returned.m["id"] = probe.request_id
    /\ probe.op = "_success_response"
       => /\ DOMAIN probe.returned.m \subseteq {"jsonrpc", "result", "id"}
          /\ probe.returned.m["result"] = probe.result

\* an error built for the id 0 with the data "": the id is kept, the data is
\* left out
C29_Witness ==
    /\ probe.op = "_error_response"
    /\ probe.request_id = IntV(0)
    /\ probe.data = StrV("")
    /\ "id" \in DOMAIN probe.returned.m
    /\ "data" \notin DOMAIN probe.returned.m["error"].m

\* the types of JSON Schema the inference gives
SchemaTypes == {"string", "integer", "number", "boolean", "array", "object"}

\* C25: the inference is total: for every annotation value, any object
\* included, it returns one of the six types and raises nothing, so that a
\* registration never fails because of an annotation.
C25_InferenceTotal ==
    /\ probe.op = "_infer_param_type_from_annotation"
       => /\ probe.outcome.exc = ""
          /\ probe.outcome.value.kind = "str"
          /\ probe.outcome.value.s \in SchemaTypes
    /\ probe.op = "add"
       => /\ probe.exc = ""
          /\ Lookup(tools, FuncName(probe.func)) # {}

\* the type the inference returned
Inferred == probe.outcome.value.s

\* C26: the classes str, int, float, bool, list and dict get string,
\* integer, number, boolean, array and object; a generic gets the type of
\* its outer container, array for a list and object for a dict, whatever
\* its type arguments; a union or optional, an absent annotation and every
\* other class get string.
C26_ClassAndGenericTable ==
    (/\ probe.op = "_infer_param_type_from_annotation"
     /\ probe.annotation.form \in {"empty", "class", "generic", "union"})
    => /\ probe.outcome.exc = ""
       /\ LET a == probe.annotation
          IN  CASE a.form = "class" /\ a.name = "str" -> Inferred = "string"
                [] a.form = "class" /\ a.name = "int" -> Inferred = "integer"
                [] a.form = "class" /\ a.name = "float" -> Inferred = "number"
                [] a.form = "class" /\ a.name = "bool" -> Inferred = "boolean"
                [] a.form \in {"class", "generic"} /\ a.name = "list" ->
                        Inferred = "array"
                [] a.form \in {"class", "generic"} /\ a.name = "dict" ->
                        Inferred = "object"
                [] OTHER -> Inferred = "string"

\* Dict[str, List[int]] inferred as object
C26_Witness ==
    /\ probe.op = "_infer_param_type_from_annotation"
    /\ probe.annotation = Generic("dict", <<"str", "list">>)
    /\ Inferred = "object"

\* the text holds the word, whatever the case of its letters
Mentions(word) == StrIn(word, Lower(probe.annotation.text))

\* C27: a text annotation is matched without regard to case against the
\* words int, then float or number, then bool, then list or array, then
\* dict or object, anywhere in the text; the first group that matches gives
\* integer, number, boolean, array or object, and a text that matches none
\* gives string.
C27_TextualAnnotation ==
    (/\ probe.op = "_infer_param_type_from_annotation"
     /\ probe.annotation.form = "text")
    => /\ probe.outcome.exc = ""
       /\ LET int == Mentions(<<"i", "n", "t">>)
              number == Mentions(<<"f", "l", "o", "a", "t">>) \/ Mentions(<<"n", "u", "m", "b", "e", "r">>)
              bool == Mentions(<<"b", "o", "o", "l">>)
              array == Mentions(<<"l", "i", "s", "t">>) \/ Mentions(<<"a", "r", "r", "a", "y">>)
              object == Mentions(<<"d", "i", "c", "t">>) \/ Mentions(<<"o", "b", "j", "e", "c", "t">>)
          IN  /\ int => Inferred = "integer"
              /\ (~int /\ number) => Inferred = "number"
              /\ (~int /\ ~number /\ bool) => Inferred = "boolean"
              /\ (~int /\ ~number /\ ~bool /\ array) => Inferred = "array"
              /\ (~int /\ ~number /\ ~bool /\ ~array /\ object) =>
                    Inferred = "object"
              /\ (~int /\ ~number /\ ~bool /\ ~array /\ ~object) =>
                    Inferred = "string"

\* the text "BOOLFloat" inferred as number: the case of the letters does not
\* count, and float is matched before bool
C27_Witness ==
    /\ probe.op = "_infer_param_type_from_annotation"
    /\ probe.annotation = Text(<<"B", "O", "O", "L">> \o <<"F", "l", "o", "a", "t">>)
    /\ Inferred = "number"

\* the line begins with "<name>:" or "- <name>:"
NamePrefixed(line, name) ==
    \/ StartsWith(Strip(line), NameChars(name) \o <<":">>)
    \/ StartsWith(Strip(line), <<"-", " ">> \o NameChars(name) \o <<":">>)

\* the line holds "param <name>" or "parameter <name>", whatever the case of
\* the letters of the line and of the name
Mentioned(line, name) ==
    \/ StrIn(<<"p", "a", "r", "a", "m", " ">> \o Lower(NameChars(name)), Lower(line))
    \/ StrIn(<<"p", "a", "r", "a", "m", "e", "t", "e", "r", " ">> \o Lower(NameChars(name)), Lower(line))

\* the trimmed text after the first colon of the line
Described(line) == Strip(AfterColon(Strip(line)))

\* C28: the description of a parameter is the trimmed text after the first
\* colon of the first line that begins with "<name>:" or "- <name>:",
\* wherever that line stands among the others; only when no line begins so
\* is the first line that holds "param <name>" or "parameter <name>", case
\* not counting, used, its text after the first colon if it has one; when
\* no line matches either way the description is "Parameter <name>".
C28_DescriptionExtraction ==
    probe.op = "param_description"
    => LET doc == probe.doc
           name == probe.name
           prefixed == {i \in 1..Len(doc) : NamePrefixed(doc[i], name)}
           mentions == {i \in 1..Len(doc) : Mentioned(doc[i], name)}
           first(S) == CHOOSE i \in S : \A j \in S : i <= j
       IN  /\ prefixed # {}
                => probe.description = Described(doc[first(prefixed)])
           /\ (prefixed = {} /\ mentions # {})
                => probe.description =
                        IF StrIn(<<":">>, doc[first(mentions)])
                        THEN Described(doc[first(mentions)])
                        ELSE DefaultDescription(name)
           /\ (prefixed = {} /\ mentions = {})
                => probe.description = DefaultDescription(name)

\* C22: the decorator inserts a record under the declared name of the
\* callable, whose function is the callable itself, and returns a function
\* of that name which behaves as the callable does: for every list of
\* positional and keyword arguments a call of it has the result or the
\* failure of the same call of the callable.
C22_DecoratorKeepsCallable ==
    /\ ((probe.op = "add" /\ probe.exc = "") \/ probe.op = "inner_wrapper")
       => /\ Lookup(tools, FuncName(probe.func)) # {}
          /\ ToolsGet(tools, StrV(FuncName(probe.func))).function = probe.func
    /\ (probe.op = "add" /\ probe.exc = "")
       => probe.returned.name = FuncName(probe.func)
    /\ probe.op = "inner_wrapper"
       => probe.outcome = PyCall(probe.func, probe.args, probe.kwargs,
                                 probe.behaviour)

\* the function returned for opt, called with one positional argument and
\* the keyword c, returns the list opt returns
C22_Witness ==
    /\ probe.op = "inner_wrapper"
    /\ probe.func = "opt"
    /\ probe.args = <<IntV(0)>>
    /\ DOMAIN probe.kwargs = {"c"}
    /\ probe.outcome = Returned(ListV(<<IntV(0), NoneV, probe.kwargs["c"], IntV(0)>>))

\* C23: a parameter is in the required list of the record exactly when it
\* has no default, whatever its type, a default of None being a default:
\* the required list is the parameters without default, in declared order.
C23_RequiredIffNoDefault ==
    \A i \in 1..Len(tools) :
        LET sig == Signature(tools[i].info.function)
            required_params == tools[i].info.required_params
        IN  /\ \A j \in 1..Len(sig) :
                    (\E k \in 1..Len(required_params) :
                            required_params[k] = sig[j].name)
                    <=> ~sig[j].has_default
            /\ required_params = DeclaredRequired(tools[i].info.function)

\* the record of opt: a and c are required, b, whose default is None, and d
\* are not
C23_Witness ==
    /\ Len(tools) = 1
    /\ tools[1].info.function = "opt"
    /\ tools[1].info.required_params = <<"a", "c">>

\* C24: in every reachable state every name in the required list of a
\* record of the registry is the name of one of its parameter specs,
\* whatever registrations, by the decorator and by register_tool, made the
\* registry.
C24_RequiredAmongProperties ==
    \A i \in 1..Len(tools) :
        \A k \in 1..Len(tools[i].info.required_params) :
            \E j \in 1..Len(tools[i].info.properties) :
                tools[i].info.properties[j].name = tools[i].info.required_params[k]

\* C32: after run on a valid envelope whose method is non-empty and is not a
\* protocol built-in, the initialized flag is true whatever the outcome (tool
\* not found, invalid params, success, internal error, an exception leaving
\* run), and what run gives back is never the result of initialize.
C32_DirectDispatchInitializes ==
    (ValidEnvelope /\ Truthy(ReqMethod) /\ ReqMethod \notin ProtocolMethods)
    => /\ initialized
       /\ response # SuccessEnvelope(ReqId,
                        InitializeResult(server_name, server_version))

\* a direct call naming no tool, on a server not yet initialized
C32_WitnessNotFound ==
    /\ IsDirect /\ ~entry /\ initialized
    /\ IsError /\ ErrorCode = -32601

\* C34: run enters the body of a tool callable at most once, and only when the
\* envelope is valid, the tool is in the registry and every required parameter
\* is among the arguments; when run returns error -32700, -32600, -32601 or
\* -32602 no callable was entered.
C34_InvokedAtMostOnce ==
    pc = "returned"
    => /\ Len(calls) <= 1
       /\ Len(calls) = 1 => (AddressesTool /\ Len(Omitted) = 0)
       /\ (raised = "" /\ IsError /\ ErrorCode \in {-32700, -32600, -32601, -32602})
          => calls = <<>>

ListedNames ==
    [i \in 1..Len(response.m["result"].m["tools"].l) |->
        response.m["result"].m["tools"].l[i].m["name"].s]

\* the descriptions of the entries of a tools/list result
ListedDescriptions ==
    [i \in 1..Len(response.m["result"].m["tools"].l) |->
        response.m["result"].m["tools"].l[i].m["description"]]

\* C35: registering a name again replaces its record in place: no step moves
\* a name to another position of list_tools; a registration under a name
\* already registered leaves list_tools as it was and puts the new callable
\* at the position the name got at its first registration; and tools/list
\* gives the entries in that same order, each described by the callable
\* registered last under its name.
C35_ReRegistrationInPlace ==
    [][/\ \A i \in 1..Len(tools) :
            i <= Len(tools') /\ tools'[i].name = tools[i].name
       /\ (registered' # registered /\ Len(registered') = Len(registered))
          => /\ list_tools(tools') = list_tools(tools)
             /\ \A i \in 1..Len(registered) :
                    /\ tools'[i].name = registered[i].name
                    /\ tools'[i].info.function = registered'[i].last
       /\ (ValidEnvelope /\ ReqMethod = StrV("tools/list"))'
          => /\ "result" \in DOMAIN response'.m
             /\ ListedNames' = [i \in 1..Len(registered) |-> registered[i].name]
             /\ ListedDescriptions' = [i \in 1..Len(registered) |->
                    DictGet(ToolInfoDict(registered[i].last), "Description", NoneV)]
      ]_vars

\* tools/list after add, another tool, and add2 registered under the name add:
\* add is still listed first, with the description of add2
C35_WitnessFirstPositionKept ==
    /\ ValidEnvelope
    /\ ReqMethod = StrV("tools/list")
    /\ Len(registered) = 2
    /\ registered[1] = [name |-> "add", first |-> "add", last |-> "add2"]
    /\ list_tools(tools) = <<"add", registered[2].name>>
    /\ "result" \in DOMAIN response.m
    /\ ListedNames = list_tools(tools)
    /\ ListedDescriptions[1] = DictGet(ToolInfoDict("add2"), "Description", NoneV)
    /\ ListedDescriptions[1] # DictGet(ToolInfoDict("add"), "Description", NoneV)

\* the text of the last request parses to a value that is no object
NonObjectText ==
    pc = "returned" /\ request_json.is_str /\ Parses /\ Request.kind # "dict"

\* the params of the last envelope are given and are no mapping
NonMappingParams == ValidEnvelope /\ ReqParams.kind # "dict"

\* the last envelope is a tools/call whose arguments are given and are no
\* mapping
NonMappingArguments ==
    /\ ValidEnvelope
    /\ ReqMethod = StrV("tools/call")
    /\ ReqParams.kind = "dict"
    /\ DictGet(ReqParams, "arguments", DictV(EmptyMap)).kind # "dict"

\* the value given where the arguments of the tool are expected
GivenArguments ==
    IF ReqMethod = StrV("tools/call")
    THEN DictGet(ReqParams, "arguments", DictV(EmptyMap))
    ELSE ReqParams

\* the name under which the request looks a tool up
GivenName ==
    IF ReqMethod = StrV("tools/call") THEN DictGet(ReqParams, "name", NoneV)
    ELSE ReqMethod

\* the required parameters of f that an array given as arguments does not
\* hold as elements
NotListed(f) ==
    SelectSeq(DeclaredRequired(f),
              LAMBDA p : \A i \in 1..Len(GivenArguments.l) :
                            GivenArguments.l[i] # StrV(p))

\* the request makes run use the value as a mapping: a tools/call reads its
\* params, or a registered tool is reached and its arguments are null or a
\* number, or an array holding the name of every required parameter
UsedAsMapping ==
    \/ ReqMethod = StrV("tools/call") /\ ReqParams.kind # "dict"
    \/ /\ GivenName.kind = "str"
       /\ GivenName \notin BuiltinMethods \cup {StrV(""), StrV("tools/call")}
       /\ GivenName.s \in RegisteredSoFar
       /\ \/ GivenArguments.kind # "list"
          \/ NotListed(LastRegistered(GivenName.s)) = <<>>

C33_BuiltinsBeforeTools ==
    /\ (ValidEnvelope /\ ReqMethod \in BuiltinMethods)
       => /\ calls = <<>>
          /\ raised = ""
          /\ ReqMethod = StrV("initialize")
             => response = SuccessEnvelope(ReqId,
                                InitializeResult(server_name, server_version))
          /\ ReqMethod \in {StrV("initialized"), StrV("notifications/initialized")}
             => response = SuccessEnvelope(ReqId, DictV(EmptyMap))
          /\ ReqMethod = StrV("tools/list")
             => /\ "result" \in DOMAIN response.m
                /\ ListedNames = list_tools(tools)
    /\ (ValidEnvelope /\ ReqMethod = StrV("tools/call"))
       => /\ ReqParams.kind = "dict" /\ DictGet(ReqParams, "name", NoneV) = NoneV
             => (calls = <<>> /\ IsError /\ ErrorCode = -32602)
          /\ calls # <<>>
             => /\ IsToolsCall
                /\ TargetName.kind = "str"
                /\ TargetName.s \in RegisteredSoFar
                /\ calls = <<Invocation(ToolsGet(tools, TargetName), TargetArgs,
                                        initialized)>>
          /\ (IsToolsCall /\ TargetName.kind = "str"
                /\ TargetName.s \in RegisteredSoFar /\ TargetArgs = DictV(EmptyMap))
             => Len(calls) = 1

\* a callable registered under the name initialize: the method initialize
\* does not enter it
C33_WitnessInitialize ==
    /\ ValidEnvelope
    /\ ReqMethod = StrV("initialize")
    /\ "initialize" \in RegisteredSoFar
    /\ calls = <<>>
    /\ response = SuccessEnvelope(ReqId, InitializeResult(server_name, server_version))

\* C38: the registry and the initialized flag belong to one instance: a call
\* on the second instance (its construction, a registration, a run, a change
\* of its logging) leaves the registry and the flag of the first as they
\* were, and a call on the first leaves those of the second as they were,
\* whether the two have the same name or not.
C38_InstancesIndependent ==
    [][/\ peer'.ops # peer.ops
          => (tools' = tools /\ initialized' = initialized)
       /\ (peer.constructed /\ peer'.ops = peer.ops)
          => (PeerTools' = PeerTools /\ peer'.initialized = peer.initialized)
      ]_vars

\* two servers of the same name: the second has a tool and is initialized,
\* the first has another tool and is not
C38_WitnessSameName ==
    /\ peer.constructed
    /\ peer.server_name = server_name
    /\ list_tools(peer.tools) = <<"add">>
    /\ peer.initialized
    /\ list_tools(tools) = <<"compute">>
    /\ ~initialized

\* the level of the logger of the first server
ServerLevel == getLogger(loggers, LoggerName(server_name)).level

\* C40: while enable_logging of a server is false the level of its logger is
\* above CRITICAL, whatever is called on it and whatever other instance is
\* constructed or has its logging enabled; and a call on the server that
\* leaves enable_logging false leaves the level as it is.
C40_DisabledLoggerStaysSilent ==
    /\ [](~enable_logging => ServerLevel > CRITICAL)
    /\ [][(~enable_logging /\ ~enable_logging' /\ peer' = peer)
          => ServerLevel' = ServerLevel]_vars

\* what run gives for the request of a thread when it is the only call, on a
\* server that was not initialized
RunAlone(t) ==
    run(ObjRequest(threads[t].request), tools, FALSE, server_name,
        server_version, threads[t].behaviour)

\* C31: with several first requests interleaved on a server that was not
\* initialized, each the handshake or a direct call, the flag is true once a
\* call has finished, no step takes it from true to false, and each call
\* gives what it gives when it runs alone.
C31_ConcurrentFirstRequests ==
    /\ [](\A t \in Threads :
            threads[t].pc = "done"
            => /\ initialized
               /\ threads[t].response = RunAlone(t).response
               /\ threads[t].raised = RunAlone(t).raised
               /\ threads[t].calls = RunAlone(t).calls)
    /\ [][initialized => initialized']_vars

\* two calls that both found the flag false: one has finished, the other is
\* about to initialize the server a second time
C31_WitnessBothAutoInitialize ==
    /\ threads[1].pc = "done"
    /\ threads[1].request = Envelope(StrV("2.0"), StrV("add"), Absent, IntV(1))
    /\ threads[2].pc = "auto"
    /\ initialized

\* C39: every call of run returns: a call that has begun always has a next
\* statement to execute until it has finished, and a call that has finished
\* has returned exactly one response envelope.
C39_RunReturns ==
    \A t \in Threads :
        /\ threads[t].pc \notin {"idle", "done"} => ENABLED ThreadStep(t)
        /\ threads[t].pc = "done"
           => (threads[t].raised = "" /\ threads[t].response.kind = "dict")

====
